---------------------------- MODULE Spec2Model ----------------------------
(***************************************************************************)
(* A model of the self-distillation training step of plankton-dinov2:      *)
(*   - main / do_train           (src/dinov2/train/train.py)               *)
(*   - SSLMetaArch               (src/dinov2/train/ssl_meta_arch.py)       *)
(*   - collate_data_and_cast     (src/dinov2/data/collate.py)              *)
(*   - HDF5Dataset               (src/dinov2/data/datasets/hdf5_dataset.py)*)
(*                                                                         *)
(* Seven specifications share the module.  Spec is the training program:   *)
(* construction of SSLMetaArch, prepare_for_distributed_training and the   *)
(* loop of do_train, one action per statement group of the loop body.      *)
(* SpecEMA applies update_teacher to module dictionaries drawn by its      *)
(* Init.  SpecPrepare applies prepare_for_distributed_training to a        *)
(* student and a teacher drawn by its Init.  SpecSched applies the         *)
(* schedule lookups and apply_optim_scheduler of one iteration to          *)
(* schedules and parameter groups drawn by its Init.  SpecCollate applies  *)
(* collate_data_and_cast to inputs drawn by its Init.  SpecFB is           *)
(* SSLMetaArch.__init__ followed by one forward_backward call, one action  *)
(* per step of the call, on a configuration and a batch drawn by its Init. *)
(* SpecHDF5 is any sequence of __len__, get_image_data and close on        *)
(* HDF5Dataset instances that share the class-level hdf5_handles.          *)
(*                                                                         *)
(* Numbers.  Tensor values and ratios are modelled exactly on grids:       *)
(* a momentum is MomNum/MomDen, a probability pnum/PDen, a mask ratio      *)
(* rnum/RDen, and parameter values are integers that are multiples of a    *)
(* power of MomDen large enough for every EMA update of a run to be exact  *)
(* (the dyadic values on which the float arithmetic of the code is exact). *)
(***************************************************************************)
EXTENDS Integers, Sequences, FiniteSets, TLC

\* ------------------------------------------------------------------------
\* Bounds of the model
\* ------------------------------------------------------------------------
\* cfg.optim.epochs * OFFICIAL_EPOCH_LENGTH of the modelled runs
MaxIter == 1
\* largest number of cooperating replicas (distributed.get_global_size())
MaxReplicas == 2

\* ------------------------------------------------------------------------
\* Generic helpers
\* ------------------------------------------------------------------------
Min(a, b) == IF a <= b THEN a ELSE b

Max(a, b) == IF a >= b THEN a ELSE b

RECURSIVE Pow(_, _)
Pow(b, e) == IF e = 0 THEN 1 ELSE b * Pow(b, e - 1)

RECURSIVE SumSeq(_)
SumSeq(s) == IF s = <<>> THEN 0 ELSE Head(s) + SumSeq(Tail(s))

RECURSIVE Concat(_)
\* the concatenation of a sequence of sequences (list += list, in order)
Concat(ss) == IF ss = <<>> THEN <<>> ELSE Head(ss) \o Concat(Tail(ss))

\* ========================================================================
\* PART 1.  SSLMetaArch and do_train
\* ========================================================================
VARIABLES
    cfg,                \* the configuration of the run
    pc,                 \* position of the program (main / do_train)
    iteration,          \* do_train: iteration
    student,            \* SSLMetaArch.student: key -> FSDP modules -> params
    teacher,            \* SSLMetaArch.teacher: key -> FSDP modules -> params
    requires_grad,      \* the parameters whose requires_grad is True
    param_groups,       \* optimizer.param_groups: the parameters the
                        \* optimizer holds (SpecSched: the groups' options)
    grads,              \* the parameters that hold a gradient
    mom,                \* do_train: mom (numerator over MomDen)
    loss_dict,          \* do_train: loss_dict (per loss term, a float value)
    loss_dict_reduced,  \* do_train: loss_dict_reduced
    calls,              \* the calls made so far by the current iteration
    logged,             \* the values handed to metric_logger / wandb by it
    start_iter          \* do_train: start_iter

trainVars == <<cfg, pc, iteration, student, teacher, requires_grad,
               param_groups, grads, mom, loss_dict, loss_dict_reduced, calls,
               logged, start_iter>>

VARIABLES
    cpc,                \* position of the collator
    cin,                \* the arguments of collate_data_and_cast
    loc,                \* the local variables of collate_data_and_cast
    batch               \* the mapping collate_data_and_cast returns

collateVars == <<cpc, cin, loc, batch>>

VARIABLES
    fb                  \* the position and locals of a forward_backward call

fbVars == <<fb>>

VARIABLES
    hdf5_handles,       \* HDF5Dataset.hdf5_handles: file -> h5py.File
    handles,            \* the h5py.File objects created so far, open or closed
    datasets,           \* the HDF5Dataset instances
    read                \* the last read of get_image_data

hdf5Vars == <<hdf5_handles, handles, datasets, read>>

\* the HDF5 files on disk
Files == {"a.hdf5", "b.hdf5"}

\* hdf5_handles has no item for a file
Unregistered == 0

\* no HDF5Dataset exists
HDF5Idle ==
    /\ hdf5_handles = [f \in Files |-> Unregistered]
    /\ handles = <<>>
    /\ datasets = <<>>
    /\ read = <<>>

vars == <<trainVars, collateVars, fbVars, hdf5Vars>>

\* ------------------------------------------------------------------------
\* Floating point classes of a loss value (IEEE 754)
\* ------------------------------------------------------------------------
FloatClass == {"finite", "nan", "pinf", "ninf"}

RECURSIVE Factorial(_)
Factorial(n) == IF n = 0 THEN 1 ELSE n * Factorial(n - 1)

\* the unit of the finite loss values: a sum over the replicas divided by the
\* number of replicas is exact
LossUnit == Factorial(MaxReplicas)

\* a float: its class and, when finite, its value
Float(cls, v) == [cls |-> cls, v |-> v]

\* the loss values a replica computes
LossValues ==
    { Float("finite", LossUnit) }
        \cup { Float(c, 0) : c \in FloatClass \ {"finite"} }

\* a + b on floats
FAdd(a, b) ==
    IF a.cls = "nan" \/ b.cls = "nan" THEN Float("nan", 0)
    ELSE IF a.cls = "finite" /\ b.cls = "finite" THEN Float("finite", a.v + b.v)
    ELSE IF a.cls = "finite" THEN b
    ELSE IF b.cls = "finite" THEN a
    ELSE IF a = b THEN a
    ELSE Float("nan", 0)

\* a / n for an integer n > 0
FDiv(a, n) == IF a.cls = "finite" THEN Float("finite", a.v \div n) ELSE a

RECURSIVE FSum(_)
\* Python's sum(values): 0 + v1 + v2 + ...
FSum(vals) ==
    IF vals = <<>> THEN Float("finite", 0) ELSE FAdd(Head(vals), FSum(Tail(vals)))

\* math.isnan
IsNan(x) == x.cls = "nan"

IsFiniteClass(x) == x.cls = "finite"

\* ------------------------------------------------------------------------
\* Momentum and parameter values
\* ------------------------------------------------------------------------
\* momenta are MomNum / MomDen
MomDen == 2

\* values of momentum_schedule: 1/2 and 1
MomSet == {1, MomDen}

\* the unit of the parameter values: every EMA update of a run is exact
PUnit == Pow(MomDen, MaxIter + 1)

\* values a student parameter takes (initialisation, optimizer step)
PVals == {0, PUnit}


\* ------------------------------------------------------------------------
\* Configurations
\* ------------------------------------------------------------------------
\* cfg.train.centering: the two supported modes, and one that is neither
CenteringModes == {"centering", "sinkhorn_knopp", "softmax"}

\* the configurations of the modelled runs (cfg.dino.loss_weight > 0,
\* cfg.crops.local_crops_number = 0, no KoLeo term, and an iBOT head that is
\* shared with DINO when iBOT is on)
CfgSet ==
    { c \in [centering : CenteringModes,
             grad_scaler : BOOLEAN,
             do_ibot : BOOLEAN,
             ibot_mask_positive : BOOLEAN,
             ibot_separate_head : {FALSE},
             global_size : 1..MaxReplicas] :
        ~c.do_ibot => c.ibot_mask_positive }

\* every key a student_model_dict / teacher_model_dict can hold, in the
\* order __init__ inserts them
KeyOrder == <<"backbone", "dino_head", "ibot_head">>

\* the keys __init__ inserts for a configuration
ModelKeySet(c) ==
    {"backbone", "dino_head"}
        \cup (IF c.do_ibot /\ c.ibot_separate_head THEN {"ibot_head"} ELSE {})

\* the sequences of length n over S
SeqsOfLen(S, n) == [1..n -> S]

\* the module dicts with the given keys: shape[k] lists, for each FSDP module
\* of submodule k (in the order of get_fsdp_modules), the number of its flat
\* parameters (ms.params); every parameter has some value of vals
ModuleDicts(keys, shape, vals) ==
    { m \in [keys -> UNION { SeqsOfLen(UNION { SeqsOfLen(vals, shape[k][i])
                                                 : i \in 1..Len(shape[k]) },
                                        Len(shape[k]))
                             : k \in keys }] :
        \A k \in keys :
            /\ Len(m[k]) = Len(shape[k])
            /\ \A i \in 1..Len(m[k]) : Len(m[k][i]) = shape[k][i] }

\* the models of the training runs: one FSDP wrapper with one flat parameter
\* for every submodule
TrainShape == [k \in {"backbone", "dino_head", "ibot_head"} |-> <<1>>]

\* the parameters of a module dict, named <<owner, key, module, position>>
ParamIds(who, m) ==
    UNION { UNION { { <<who, k, i, j>> : j \in 1..Len(m[k][i]) }
                    : i \in 1..Len(m[k]) }
            : k \in DOMAIN m }

\* the loss terms forward_backward returns, in insertion order
LossKeys(c) ==
    <<"dino_global_crops_loss">> \o (IF c.do_ibot THEN <<"ibot_loss">> ELSE <<>>)

LossKeySet(c) == { LossKeys(c)[n] : n \in 1..Len(LossKeys(c)) }

\* the values of a dict, in insertion order
DictValues(c, d) == [n \in 1..Len(LossKeys(c)) |-> d[LossKeys(c)[n]]]

\* ------------------------------------------------------------------------
\* SSLMetaArch.get_params_groups and SSLMetaArch.update_teacher
\* ------------------------------------------------------------------------
\* parameter groups collected over the teacher's submodules as well
get_params_groups_with_teacher(st, te) ==
    ParamIds("student", st) \cup ParamIds("teacher", te)

\* the parameters of the groups handed to the optimizer
get_params_groups(st, te) == ParamIds("student", st)

\* self.student.keys(), in insertion order
StudentKeys(st) == SelectSeq(KeyOrder, LAMBDA k : k \in DOMAIN st)

\* for ms, mt in zip(get_fsdp_modules(self.student[k]),
\* get_fsdp_modules(self.teacher[k])): the module indexes the zip visits
ZippedModules(st, te, k) == 1..Min(Len(st[k]), Len(te[k]))

\* teacher_param_list: the teacher parameters (by reference), in list order
teacher_param_list(st, te) ==
    Concat([n \in 1..Len(StudentKeys(st)) |->
        LET k == StudentKeys(st)[n] IN
        Concat([i \in ZippedModules(st, te, k) |->
            [j \in 1..Len(te[k][i]) |-> <<k, i, j>>]])])

\* student_param_list built over the keys in the opposite order
student_param_list_reversed_keys(st, te) ==
    Concat([n \in 1..Len(StudentKeys(st)) |->
        LET k == StudentKeys(st)[Len(StudentKeys(st)) + 1 - n] IN
        Concat([i \in ZippedModules(st, te, k) |-> st[k][i]])])

\* student_param_list: the student parameter values, in list order
student_param_list(st, te) ==
    Concat([n \in 1..Len(StudentKeys(st)) |->
        LET k == StudentKeys(st)[n] IN
        Concat([i \in ZippedModules(st, te, k) |-> st[k][i]])])

\* torch._foreach_mul_(teacher_param_list, m), for one tensor
ForeachMul(t, m) == (t * m) \div MomDen

\* torch._foreach_add_(teacher_param_list, student_param_list, alpha), for
\* one pair of tensors; alpha is a numerator over MomDen
ForeachAdd(t, s, alpha) == t + (s * alpha) \div MomDen

\* the teacher after update_teacher(m): the two fused operations act on the
\* n-th teacher tensor and the n-th student tensor of the two lists
update_teacher(st, te, m) ==
    LET refs == teacher_param_list(st, te)
        svals == student_param_list(st, te)
        Pos(k, i, j) == { n \in 1..Len(refs) : refs[n] = <<k, i, j>> }
    IN [k \in DOMAIN te |->
         [i \in 1..Len(te[k]) |->
           [j \in 1..Len(te[k][i]) |->
              IF Pos(k, i, j) = {} THEN te[k][i][j]
              ELSE LET n == CHOOSE x \in Pos(k, i, j) : TRUE
                   IN ForeachAdd(ForeachMul(te[k][i][j], m), svals[n], MomDen - m)]]]

\* the module dict after an optimizer step that writes `choice` (a value for
\* every stepped parameter)
Stepped(who, m, choice) ==
    [k \in DOMAIN m |->
      [i \in 1..Len(m[k]) |->
        [j \in 1..Len(m[k][i]) |->
           IF <<who, k, i, j>> \in DOMAIN choice
           THEN choice[<<who, k, i, j>>] ELSE m[k][i][j]]]]


\* ------------------------------------------------------------------------
\* main: SSLMetaArch(cfg), prepare_for_distributed_training
\* ------------------------------------------------------------------------
\* a value that stands for "not assigned yet"
None == "None"

\* the collator at rest (it takes no step in Spec)
CollateIdle == cpc = "idle" /\ cin = None /\ loc = None /\ batch = None

\* main() is entered with some configuration
Init ==
    /\ cfg \in CfgSet
    /\ pc = "main"
    /\ iteration = 0
    /\ student = None
    /\ teacher = None
    /\ requires_grad = {}
    /\ param_groups = {}
    /\ grads = {}
    /\ mom = MomDen
    /\ loss_dict = None
    /\ loss_dict_reduced = None
    /\ calls = <<>>
    /\ logged = None
    /\ start_iter = 0
    /\ HDF5Idle
    /\ fb = None
    /\ CollateIdle

\* SSLMetaArch.__init__: the only checks it makes are the two assertions on
\* the iBOT mask settings; cfg.train.centering is not read
Construct ==
    /\ pc = "main"
    /\ IF cfg.do_ibot /\ ~cfg.ibot_mask_positive
       THEN /\ pc' = "config_error"
            /\ UNCHANGED <<student, teacher, requires_grad>>
       ELSE /\ pc' = "constructed"
            /\ student' \in ModuleDicts(ModelKeySet(cfg), TrainShape, PVals)
            /\ teacher' \in ModuleDicts(ModelKeySet(cfg), TrainShape, PVals)
            \* for p in self.teacher.parameters(): p.requires_grad = False
            /\ requires_grad' = ParamIds("student", student')
    /\ UNCHANGED <<cfg, iteration, param_groups, grads, mom, loss_dict,
                   loss_dict_reduced, calls, logged, start_iter, collateVars,
                   fbVars, hdf5Vars>>

\* a preparation that leaves the teacher as __init__ built it
PrepareWithoutLoad ==
    /\ pc = "constructed"
    /\ teacher' = teacher
    /\ pc' = "do_train"
    /\ UNCHANGED <<cfg, iteration, student, requires_grad, param_groups, grads,
                   mom, loss_dict, loss_dict_reduced, calls, logged, start_iter, collateVars,
                   fbVars, hdf5Vars>>

\* SSLMetaArch.prepare_for_distributed_training
PrepareForDistributedTraining ==
    /\ pc = "constructed"
    /\ teacher' = [k \in DOMAIN teacher |-> student[k]]
    /\ pc' = "do_train"
    /\ UNCHANGED <<cfg, iteration, student, requires_grad, param_groups, grads,
                   mom, loss_dict, loss_dict_reduced, calls, logged, start_iter, collateVars,
                   fbVars, hdf5Vars>>

\* ------------------------------------------------------------------------
\* do_train
\* ------------------------------------------------------------------------
\* max_iter = cfg.optim.epochs * OFFICIAL_EPOCH_LENGTH
max_iter == MaxIter

\* do_train up to the loop: the optimizer is built over get_params_groups()
\* and the run starts at iteration 0 or at the iteration after a checkpoint's
SetupTrain ==
    /\ pc = "do_train"
    /\ param_groups' = get_params_groups(student, teacher)
    /\ start_iter' \in 0..(max_iter + 1)
    /\ iteration' = start_iter'
    /\ pc' = "loop"
    /\ UNCHANGED <<cfg, student, teacher, requires_grad, grads, mom, loss_dict,
                   loss_dict_reduced, calls, logged, collateVars, fbVars, hdf5Vars>>

\* a loop that returns one iteration later
FetchBatchOneMore ==
    /\ pc = "loop"
    /\ calls' = <<>>
    /\ logged' = None
    /\ pc' = IF iteration > max_iter + 1 THEN "returned" ELSE "schedule"
    /\ UNCHANGED <<cfg, iteration, student, teacher, requires_grad, param_groups,
                   grads, mom, loss_dict, loss_dict_reduced, start_iter, collateVars,
                   fbVars, hdf5Vars>>

\* for data in metric_logger.log_every(...): the next batch is taken from
\* the infinite loader; if iteration > max_iter: return
FetchBatch ==
    /\ pc = "loop"
    /\ calls' = <<>>
    /\ logged' = None
    /\ pc' = IF iteration > max_iter THEN "returned" ELSE "schedule"
    /\ UNCHANGED <<cfg, iteration, student, teacher, requires_grad, param_groups,
                   grads, mom, loss_dict, loss_dict_reduced, start_iter, collateVars,
                   fbVars, hdf5Vars>>

\* the schedule lookups and apply_optim_scheduler
ApplySchedules ==
    /\ pc = "schedule"
    /\ mom' \in MomSet
    /\ calls' = Append(calls, "apply_optim_scheduler")
    /\ pc' = "forward_backward"
    /\ UNCHANGED <<cfg, iteration, student, teacher, requires_grad, param_groups,
                   grads, loss_dict, loss_dict_reduced, logged, start_iter, collateVars,
                   fbVars, hdf5Vars>>

\* optimizer.zero_grad(set_to_none=True); model.forward_backward(data, ...):
\* get_teacher_output raises NotImplementedError for a centering mode that is
\* neither "centering" nor "sinkhorn_knopp"; otherwise the losses are computed
\* (any float class each) and backward leaves a gradient on the student
\* parameters that require one (the teacher runs under torch.no_grad)
ForwardBackward ==
    /\ pc = "forward_backward"
    /\ calls' = Append(Append(calls, "zero_grad"), "forward_backward")
    /\ IF cfg.centering \notin {"centering", "sinkhorn_knopp"}
       THEN /\ pc' = "not_implemented_error"
            /\ grads' = {}
            /\ UNCHANGED loss_dict
       ELSE /\ pc' = "optimizer"
            /\ loss_dict' \in [LossKeySet(cfg) -> LossValues]
            /\ grads' = ParamIds("student", student) \cap requires_grad
    /\ UNCHANGED <<cfg, iteration, student, teacher, requires_grad, param_groups,
                   mom, loss_dict_reduced, logged, start_iter, collateVars,
                   fbVars, hdf5Vars>>

\* the loop body with update_teacher placed before the parameter update
OptimizerStepAfterTeacherUpdate ==
    /\ pc = "optimizer"
    /\ calls' = Append(Append(calls, "update_teacher"),
                       IF cfg.grad_scaler THEN "fp16_scaler.step" ELSE "optimizer.step")
    /\ \E choice \in [param_groups \cap grads -> PVals] :
          /\ student' = Stepped("student", student, choice)
          /\ teacher' = Stepped("teacher", update_teacher(student, teacher, mom), choice)
    /\ pc' = "reduce"
    /\ UNCHANGED <<cfg, iteration, requires_grad, param_groups, grads, mom,
                   loss_dict, loss_dict_reduced, logged, start_iter, collateVars,
                   fbVars, hdf5Vars>>

\* gradient clipping and the parameter update: fp16_scaler.step(optimizer)
\* with a grad scaler, optimizer.step() without.  The step writes every
\* parameter of the optimizer's groups that holds a gradient and no other
OptimizerStep ==
    /\ pc = "optimizer"
    /\ calls' = Append(calls, IF cfg.grad_scaler THEN "fp16_scaler.step"
                                                 ELSE "optimizer.step")
    /\ \E choice \in [param_groups \cap grads -> PVals] :
          /\ student' = Stepped("student", student, choice)
          /\ teacher' = Stepped("teacher", teacher, choice)
    /\ pc' = "update_teacher"
    /\ UNCHANGED <<cfg, iteration, requires_grad, param_groups, grads, mom,
                   loss_dict, loss_dict_reduced, logged, start_iter, collateVars,
                   fbVars, hdf5Vars>>

\* model.update_teacher(mom)
UpdateTeacher ==
    /\ pc = "update_teacher"
    /\ calls' = Append(calls, "update_teacher")
    /\ teacher' = update_teacher(student, teacher, mom)
    /\ pc' = "reduce"
    /\ UNCHANGED <<cfg, iteration, student, requires_grad, param_groups, grads,
                   mom, loss_dict, loss_dict_reduced, logged, start_iter, collateVars,
                   fbVars, hdf5Vars>>

\* the sums the values of one loss term on the other replicas can have, by
\* the number n of replicas of the run
OtherReplicasSums ==
    [n \in 1..MaxReplicas |-> { FSum(o) : o \in [1..(n - 1) -> LossValues] }]

\* torch.distributed.all_reduce(v): v becomes the sum over the replicas
all_reduce(v, rest) == FAdd(v, rest)

\* v.item() taken as the logged value, without the division
item_undivided(v, n) == v

\* v.item() / distributed.get_global_size()
item_over_global_size(v, n) == FDiv(v, n)

\* torch.distributed.all_reduce(v) for every loss term when there are several
\* replicas (rest: the sum of the other replicas' values), then
\* loss_dict_reduced = v.item() / global_size
ReduceLosses ==
    /\ pc = "reduce"
    /\ IF cfg.global_size > 1
       THEN /\ \E rest \in [LossKeySet(cfg) -> OtherReplicasSums[cfg.global_size]] :
                 loss_dict' = [k \in LossKeySet(cfg) |->
                                  all_reduce(loss_dict[k], rest[k])]
            /\ calls' = Append(calls, "all_reduce")
       ELSE UNCHANGED <<loss_dict, calls>>
    /\ loss_dict_reduced' =
          [k \in LossKeySet(cfg) |->
              item_over_global_size(loss_dict'[k], cfg.global_size)]
    /\ pc' = "nan_check"
    /\ UNCHANGED <<cfg, iteration, student, teacher, requires_grad, param_groups,
                   grads, mom, logged, start_iter, collateVars,
                   fbVars, hdf5Vars>>

\* the values of cfg.evaluation.eval_period_iterations: no evaluation, and
\* one every second iteration
EvalPeriods == {0, 2}

\* a loop body that goes on to the logging whatever the sum is
NanCheckSkipped ==
    /\ pc = "nan_check"
    /\ pc' = "logging"
    /\ UNCHANGED <<cfg, iteration, student, teacher, requires_grad, param_groups,
                   grads, mom, loss_dict, loss_dict_reduced, calls, logged, start_iter, collateVars,
                   fbVars, hdf5Vars>>

\* if math.isnan(sum(loss_dict_reduced.values())): raise AssertionError
NanCheck ==
    /\ pc = "nan_check"
    /\ pc' = IF IsNan(FSum(DictValues(cfg, loss_dict_reduced)))
             THEN "assertion_error" ELSE "logging"
    /\ UNCHANGED <<cfg, iteration, student, teacher, requires_grad, param_groups,
                   grads, mom, loss_dict, loss_dict_reduced, calls, logged, start_iter, collateVars,
                   fbVars, hdf5Vars>>

\* metric_logger.update(...) and wandb.log(...)
LogMetrics ==
    /\ pc = "logging"
    /\ calls' = Append(Append(calls, "metric_logger.update"), "wandb.log")
    /\ logged' = [k \in LossKeySet(cfg) \cup {"total_loss"} |->
                     IF k = "total_loss"
                     THEN FSum(DictValues(cfg, loss_dict_reduced))
                     ELSE loss_dict_reduced[k]]
    /\ pc' = "checkpoint"
    /\ UNCHANGED <<cfg, iteration, student, teacher, requires_grad, param_groups,
                   grads, mom, loss_dict, loss_dict_reduced, start_iter, collateVars,
                   fbVars, hdf5Vars>>

\* do_test when due (eval_period_iterations > 0 and (iteration + 1) a
\* multiple of it, for any of the modelled periods),
\* periodic_checkpointer.step(iteration), iteration += 1.
\* loss_dict and loss_dict_reduced are rebound before they are read again
\* (at forward_backward and at the reduction), so they are dropped here
CheckpointAndAdvance ==
    /\ pc = "checkpoint"
    /\ \E eval_period_iterations \in EvalPeriods :
          calls' = (IF eval_period_iterations > 0
                       /\ (iteration + 1) % eval_period_iterations = 0
                    THEN Append(calls, "do_test") ELSE calls)
                     \o <<"periodic_checkpointer.step">>
    /\ iteration' = iteration + 1
    /\ loss_dict' = None
    /\ loss_dict_reduced' = None
    /\ pc' = "loop"
    /\ UNCHANGED <<cfg, student, teacher, requires_grad, param_groups, grads,
                   mom, logged, start_iter, collateVars,
                   fbVars, hdf5Vars>>

Next ==
    \/ Construct
    \/ PrepareForDistributedTraining
    \/ SetupTrain
    \/ FetchBatch
    \/ ApplySchedules
    \/ ForwardBackward
    \/ OptimizerStep
    \/ UpdateTeacher
    \/ ReduceLosses
    \/ NanCheck
    \/ LogMetrics
    \/ CheckpointAndAdvance

Spec == Init /\ [][Next]_vars


\* ------------------------------------------------------------------------
\* update_teacher applied to arbitrary student / teacher pairs
\* ------------------------------------------------------------------------
\* a backbone of two FSDP modules (two and one flat parameters), heads of one
EmaShape ==
    [k \in {"backbone", "dino_head", "ibot_head"} |->
        IF k = "backbone" THEN <<2, 1>> ELSE <<1>>]

\* the key sets __init__ can build (without and with a separate iBOT head)
EmaKeySets == { {"backbone", "dino_head"}, {"backbone", "dino_head", "ibot_head"} }

\* a student and a teacher of the same architecture, any values, any momentum
InitEMA ==
    /\ cfg = None
    /\ pc = "update_teacher"
    /\ iteration = 0
    /\ \E keys \in EmaKeySets :
          /\ student \in ModuleDicts(keys, EmaShape, PVals)
          /\ teacher \in ModuleDicts(keys, EmaShape, PVals)
    /\ requires_grad = {}
    /\ param_groups = {}
    /\ grads = {}
    /\ mom \in 0..MomDen
    /\ loss_dict = None
    /\ loss_dict_reduced = None
    /\ calls = <<>>
    /\ logged = None
    /\ start_iter = 0
    /\ HDF5Idle
    /\ fb = None
    /\ CollateIdle

NextEMA == UpdateTeacher

SpecEMA == InitEMA /\ [][NextEMA]_vars

\* ------------------------------------------------------------------------
\* prepare_for_distributed_training applied to arbitrary student / teacher
\* pairs
\* ------------------------------------------------------------------------
\* __init__ has built a student and a teacher of the same architecture (with
\* or without a separate iBOT head), each with values of its own
InitPrepare ==
    /\ cfg = None
    /\ pc = "constructed"
    /\ iteration = 0
    /\ \E keys \in EmaKeySets :
          /\ student \in ModuleDicts(keys, EmaShape, PVals)
          /\ teacher \in ModuleDicts(keys, EmaShape, PVals)
    /\ requires_grad = ParamIds("student", student)
    /\ param_groups = {}
    /\ grads = {}
    /\ mom = MomDen
    /\ loss_dict = None
    /\ loss_dict_reduced = None
    /\ calls = <<>>
    /\ logged = None
    /\ start_iter = 0
    /\ HDF5Idle
    /\ fb = None
    /\ CollateIdle

NextPrepare == PrepareForDistributedTraining

SpecPrepare == InitPrepare /\ [][NextPrepare]_vars

\* ------------------------------------------------------------------------
\* build_schedulers and apply_optim_scheduler at some iteration
\* ------------------------------------------------------------------------
\* the values of an entry of the lr schedule (0 at the start of a warmup) and
\* of the wd schedule
LrVals == {0, 1, 2}

WdVals == {1, 2}

\* the values of a group's lr_multiplier and wd_multiplier
LrMultipliers == {1, 2}

WdMultipliers == {0, 1}

\* the lr and weight_decay of a group before do_train sets them; no product
\* of a schedule value and a multiplier equals it
UnsetValue == 7

\* the number of parameter groups of the modelled optimizers
NGroups == 2

\* the configurations and schedules: the lr and wd schedules are arrays of
\* total_iters = max_iter entries with a final value for later iterations,
\* and freeze_iters = freeze_last_layer_epochs * OFFICIAL_EPOCH_LENGTH is
\* at most total_iters
SchedCfgSet ==
    [lr_schedule : SeqsOfLen(LrVals, max_iter),
     min_lr : LrVals,
     wd_schedule : SeqsOfLen(WdVals, max_iter),
     weight_decay_end : WdVals,
     freeze_iters : 0..max_iter]

\* optimizer.param_groups as get_params_groups and AdamW leave them
ParamGroupSet ==
    [is_last_layer : BOOLEAN,
     lr_multiplier : LrMultipliers,
     wd_multiplier : WdMultipliers,
     lr : {UnsetValue},
     weight_decay : {UnsetValue}]

\* schedule[it] of a scheduler: the entry of its array, and its final value
\* from total_iters on
ScheduleAt(schedule, final_value, it) ==
    IF it < Len(schedule) THEN schedule[it + 1] ELSE final_value

\* the last-layer schedule left as the lr schedule
last_layer_lr_schedule_without_freeze(c) == c.lr_schedule

\* last_layer_lr_schedule = CosineScheduler(**lr) with
\* schedule[: freeze_last_layer_epochs * OFFICIAL_EPOCH_LENGTH] = 0
last_layer_lr_schedule(c) ==
    [n \in 1..Len(c.lr_schedule) |->
        IF n - 1 < c.freeze_iters THEN 0 ELSE c.lr_schedule[n]]

\* apply_optim_scheduler(optimizer, lr, wd, last_layer_lr)
apply_optim_scheduler(groups, lr, wd, last_layer_lr) ==
    [g \in 1..Len(groups) |->
        [groups[g] EXCEPT
            !.weight_decay = wd * groups[g].wd_multiplier,
            !.lr = (IF groups[g].is_last_layer THEN last_layer_lr ELSE lr)
                      * groups[g].lr_multiplier]]

\* the loop body is at its schedule lookups, at some iteration of a run
InitSched ==
    /\ cfg \in SchedCfgSet
    /\ pc = "apply_schedules"
    /\ iteration \in 0..max_iter
    /\ student = None
    /\ teacher = None
    /\ requires_grad = {}
    /\ param_groups \in SeqsOfLen(ParamGroupSet, NGroups)
    /\ grads = {}
    /\ mom = MomDen
    /\ loss_dict = None
    /\ loss_dict_reduced = None
    /\ calls = <<>>
    /\ logged = None
    /\ start_iter = 0
    /\ HDF5Idle
    /\ fb = None
    /\ CollateIdle

\* lr = lr_schedule[iteration]; wd = wd_schedule[iteration]; last_layer_lr =
\* last_layer_lr_schedule[iteration]; apply_optim_scheduler(optimizer, lr, wd,
\* last_layer_lr)
ApplyOptimScheduler ==
    /\ pc = "apply_schedules"
    /\ LET lr == ScheduleAt(cfg.lr_schedule, cfg.min_lr, iteration)
           wd == ScheduleAt(cfg.wd_schedule, cfg.weight_decay_end, iteration)
           last_layer_lr ==
               ScheduleAt(last_layer_lr_schedule(cfg), cfg.min_lr, iteration)
       IN param_groups' = apply_optim_scheduler(param_groups, lr, wd, last_layer_lr)
    /\ calls' = Append(calls, "apply_optim_scheduler")
    /\ pc' = "schedules_applied"
    /\ UNCHANGED <<cfg, iteration, student, teacher, requires_grad, grads, mom,
                   loss_dict, loss_dict_reduced, logged, start_iter, collateVars,
                   fbVars, hdf5Vars>>

NextSched == ApplyOptimScheduler

SpecSched == InitSched /\ [][NextSched]_vars

\* ========================================================================
\* PART 2.  collate_data_and_cast
\* ========================================================================
\* bounds of the collator's inputs
\* largest number of mask rows of a batch
MaxRows == 6
\* largest number of mask cells of a batch (mask rows times patches per row)
MaxCells == 8
\* largest number of channels of a crop
MaxCh == 2
\* mask_probability is pnum / PDen
PDen == 4
\* the ends of mask_ratio_tuple are rnum / RDen
RDen == 2

\* global crops per sample (n_global_crops)
n_global_crops == 2

\* cfg.student.patch_size and cfg.crops.global_crops_size of the modelled runs
PatchSizes == {2}

ImgSizes == {2, 4}

\* n_tokens = (img_size // patch_size) ** 2
n_tokens(img_size, patch_size) == (img_size \div patch_size) * (img_size \div patch_size)

\* max_num_patches = 0.5 * img_size // patch_size * img_size // patch_size,
\* evaluated left to right: ((0.5 * img) // ps * img) // ps
max_num_patches(img_size, patch_size) ==
    ((img_size \div (2 * patch_size)) * img_size) \div patch_size

\* the number of true entries of a mask row
CountTrue(row) == Cardinality({ q \in 1..Len(row) : row[q] })

\* MaskingGenerator.__call__(num_masking_patches) over a grid of N patches:
\* a mask of at most min(requested count, max_num_patches) true cells, the
\* all-false mask for a request of 0
mask_generator(N, ceiling, num) ==
    { m \in [1..N -> BOOLEAN] : CountTrue(m) <= Min(num, ceiling) }

\* the three kinds of `samples` the collator dispatches on
Variants == {"batched_dict", "dict_list", "cpu_records"}

\* the arguments of a call
CollateInputs ==
    { a \in [variant : Variants,
             n_samples : 1..MaxRows,
             do_free_shapes : BOOLEAN,
             img_size : ImgSizes,
             patch_size : PatchSizes,
             row_len : 1..MaxCells,
             mask_probability : 0..PDen,
             mask_ratio_tuple : (0..RDen) \X (0..RDen),
             c : 1..MaxCh,
             use_ch_patch_embed : BOOLEAN,
             use_variable_channels : BOOLEAN] :
        /\ a.mask_ratio_tuple[1] <= a.mask_ratio_tuple[2]
        /\ a.use_variable_channels => a.variant = "cpu_records"
        /\ n_global_crops * a.n_samples
             * (IF a.use_variable_channels THEN a.c ELSE 1) <= MaxRows
        /\ ~a.do_free_shapes => a.row_len = n_tokens(a.img_size, a.patch_size)
        /\ n_global_crops * a.n_samples * a.row_len
             * (IF a.use_variable_channels THEN a.c ELSE 1) <= MaxCells }

\* B: the rows of the collated global crops (B = nc * B, size(0), or
\* len(coll_global_crops), which counts channels with use_variable_channels)
BatchRows(a) ==
    n_global_crops * a.n_samples * (IF a.use_variable_channels THEN a.c ELSE 1)

\* n_samples_masked = int(B * mask_probability), rounded towards more masks
n_samples_masked_rounded_up(B, pnum) == (B * pnum + PDen - 1) \div PDen

\* n_samples_masked = int(B * mask_probability)
n_samples_masked(B, pnum) == (B * pnum) \div PDen

\* k + 1 points spread from 0 to r_max
probs_from_zero(rt, k, i) == [num |-> i * rt[2], den |-> k * RDen]

\* probs = torch.linspace(r_min, r_max, k + 1): probs[i], as a fraction
probs(rt, k, i) == [num |-> rt[1] * k + i * (rt[2] - rt[1]), den |-> k * RDen]

\* int(N * x) for a fraction x >= 0
IntTimes(N, x) == (N * x.num) \div x.den

\* torch.rand(1, L) < random.uniform(prob_min, prob_max): a threshold of 0
\* masks nothing, one of 1 or more masks everything, any other allows any mask
FreeShapeMasks(L, lo, hi) ==
    { m \in [1..L -> BOOLEAN] :
        /\ (\E q \in 1..L : m[q]) => hi.num > 0
        /\ (\E q \in 1..L : ~m[q]) => lo.num < lo.den }

\* the masks the first loop can append for i (0-based) < n_samples_masked
DrawnMasks(a, k, i) ==
    IF a.do_free_shapes
    THEN FreeShapeMasks(a.row_len, probs(a.mask_ratio_tuple, k, i),
                        probs(a.mask_ratio_tuple, k, i + 1))
    ELSE LET N == n_tokens(a.img_size, a.patch_size) IN
         UNION { mask_generator(N, max_num_patches(a.img_size, a.patch_size), num)
                 : num \in IntTimes(N, probs(a.mask_ratio_tuple, k, i))
                           ..IntTimes(N, probs(a.mask_ratio_tuple, k, i + 1)) }

\* the mask the second loop appends: zeros, or mask_generator(0)
EmptyMask(a) == [q \in 1..a.row_len |-> FALSE]

\* masks_list after the two loops
MasksLists(a) ==
    LET B == BatchRows(a)
        k == n_samples_masked(B, a.mask_probability)
    IN { ml \in [1..B -> [1..a.row_len -> BOOLEAN]] :
           \A r \in 1..B : IF r <= k THEN ml[r] \in DrawnMasks(a, k, r - 1)
                                     ELSE ml[r] = EmptyMask(a) }

\* upperbound after the first loop: the sum of int(N * prob_max)
UpperboundEstimate(a) ==
    LET B == BatchRows(a)
        k == n_samples_masked(B, a.mask_probability)
        N == n_tokens(a.img_size, a.patch_size)
    IN SumSeq([i \in 1..k |-> IntTimes(N, probs(a.mask_ratio_tuple, k, i))])

\* the (prob_min, prob_max) handed to random.uniform by the first loop
UniformArgs(a) ==
    LET k == n_samples_masked(BatchRows(a), a.mask_probability)
    IN [i \in 1..k |-> [lo |-> probs(a.mask_ratio_tuple, k, i - 1),
                        hi |-> probs(a.mask_ratio_tuple, k, i)]]

\* masks_list shuffled whatever the mode
ShufflesAlways(a) == Permutations(1..BatchRows(a))

\* random.shuffle(masks_list) when not do_free_shapes: the orders it can leave
Shuffles(a) ==
    LET B == BatchRows(a) IN
    IF a.do_free_shapes THEN { [r \in 1..B |-> r] }
    ELSE Permutations(1..B)

\* collated_masks.tile((1, c))
Tile(cm, c) ==
    [r \in 1..Len(cm) |->
        [q \in 1..(c * Len(cm[r])) |-> cm[r][((q - 1) % Len(cm[r])) + 1]]]

\* collated_masks.flatten()
Flatten(cm) == Concat(cm)

\* the positions of the true entries, counted from 1
Nonzero_one_based(flat) ==
    SelectSeq([n \in 1..Len(flat) |-> n], LAMBDA x : flat[x])

\* x.nonzero().flatten(): the 0-based positions of the true entries
Nonzero(flat) ==
    SelectSeq([n \in 1..Len(flat) |-> n - 1], LAMBDA x : flat[x + 1])

\* every masked cell weighted by the reciprocal of the batch's masked count
masks_weight_over_batch(cm) ==
    LET W == Len(cm[1])
        idx == Nonzero(Flatten(cm))
    IN [n \in 1..Len(idx) |-> [num |-> 1, den |-> Max(Len(idx), 1)]]

\* masks_weight = (1 / collated_masks.sum(-1).clamp(min=1.0))
\*                  .unsqueeze(-1).expand_as(collated_masks)[collated_masks]
masks_weight(cm) ==
    LET W == Len(cm[1])
        idx == Nonzero(Flatten(cm))
        inv == [r \in 1..Len(cm) |-> [num |-> 1, den |-> Max(CountTrue(cm[r]), 1)]]
    IN [n \in 1..Len(idx) |-> inv[(idx[n] \div W) + 1]]

\* the estimate kept as it is
upperbound_not_refreshed(ub, n) == ub

\* if mask_indices_list.shape[0] > upperbound: upperbound = that count
refresh_upperbound(ub, n) == IF n > ub THEN n ELSE ub

\* the names the dispatch on `samples` leaves bound, of those read later
BoundNames(a) ==
    CASE a.variant = "batched_dict" ->
           {"B", "c", "local_crop_len", "local_patch_pos", "local_crop_dims"}
      [] a.variant = "dict_list" -> {"B", "c"}
      [] a.variant = "cpu_records" ->
           {"B", "local_crop_len", "local_patch_pos", "local_crop_dims",
            "num_ch_list"}

\* the names the return statement reads besides the mask results
ReturnReads ==
    {"local_crop_len", "local_patch_pos", "local_crop_dims", "num_ch_list"}

\* the value of a metadata name: unbound, None, or the per-sample lists
\* (per-crop channel counts for num_ch_list)
Metadata(a, name) ==
    IF name \notin BoundNames(a) THEN "unbound"
    ELSE IF name = "num_ch_list"
         THEN IF a.use_variable_channels
              THEN [r \in 1..(n_global_crops * a.n_samples) |-> a.c]
              ELSE None
         ELSE IF a.do_free_shapes THEN "per_sample" ELSE None

\* the locals at the end of the call for masks_list ml and shuffle order f;
\* origin records which rows were appended by the first loop.  With CPU
\* records no `c` is bound in collate_data_and_cast, so tiling raises
\* UnboundLocalError (reached = "tile"); the other locals are then never bound
Locals(a, ml, f) ==
    LET B == BatchRows(a)
        k == n_samples_masked(B, a.mask_probability)
        shuffled == [r \in 1..B |-> ml[f[r]]]
        origin == [r \in 1..B |-> IF f[r] <= k THEN "drawn" ELSE "zeros"]
        meta == [name \in ReturnReads |-> Metadata(a, name)]
    IN IF a.use_ch_patch_embed /\ "c" \notin BoundNames(a)
       THEN [reached |-> "tile", B |-> B, origin |-> origin,
             masks_list |-> ml, uniform_args |-> UniformArgs(a),
             collated_masks |-> shuffled, metadata |-> meta]
       ELSE LET cm == IF a.use_ch_patch_embed THEN Tile(shuffled, a.c) ELSE shuffled
                idx == Nonzero(Flatten(cm))
            IN [reached |-> "return", B |-> B, origin |-> origin,
                masks_list |-> ml, uniform_args |-> UniformArgs(a),
                metadata |-> meta,
                collated_masks |-> cm,
                mask_indices_list |-> idx,
                masks_weight |-> masks_weight(cm),
                upperbound |-> refresh_upperbound(UpperboundEstimate(a), Len(idx))]

\* the mapping returned (the mask entries of it)
Returned(l) ==
    [collated_masks |-> l.collated_masks,
     mask_indices_list |-> l.mask_indices_list,
     masks_weight |-> l.masks_weight,
     upperbound |-> l.upperbound,
     n_masked_patches |-> Len(l.mask_indices_list),
     local_crop_len |-> l.metadata["local_crop_len"],
     local_patch_pos |-> l.metadata["local_patch_pos"],
     local_crop_dims |-> l.metadata["local_crop_dims"],
     num_ch_list |-> l.metadata["num_ch_list"]]

\* a call with some arguments
InitCollate ==
    /\ cfg = None
    /\ pc = "collate"
    /\ iteration = 0
    /\ student = None
    /\ teacher = None
    /\ requires_grad = {}
    /\ param_groups = {}
    /\ grads = {}
    /\ mom = MomDen
    /\ loss_dict = None
    /\ loss_dict_reduced = None
    /\ calls = <<>>
    /\ logged = None
    /\ start_iter = 0
    /\ HDF5Idle
    /\ fb = None
    /\ cpc = "input"
    /\ cin \in CollateInputs
    /\ loc = None
    /\ batch = None

\* collate_data_and_cast(samples, ...): the whole call.  Only the CPU branch
\* binds num_ch_list (and, for a list of dicts, the local_crop_* names), so
\* building the returned mapping raises UnboundLocalError for the two dict
\* variants
Collate ==
    /\ cpc = "input"
    /\ \E ml \in MasksLists(cin) : \E f \in Shuffles(cin) :
          /\ loc' = Locals(cin, ml, f)
          /\ IF loc'.reached = "return" /\ ReturnReads \subseteq BoundNames(cin)
             THEN cpc' = "returned" /\ batch' = Returned(loc')
             ELSE cpc' = "unbound_local_error" /\ batch' = None
    /\ UNCHANGED <<cin, trainVars, fbVars, hdf5Vars>>

NextCollate == Collate

SpecCollate == InitCollate /\ [][NextCollate]_vars

\* ========================================================================
\* PART 3.  SSLMetaArch.__init__ and one forward_backward call
\* ========================================================================
\* bounds of the call
\* largest cfg.crops.local_crops_number and number of local crops in the data
MaxLocalCrops == 2
\* largest number of samples of a batch
MaxFBSamples == 2
\* largest upperbound (size of the masked-patch buffer)
MaxMasked == 2

\* the values of a loss weight: not positive, and a positive one other than 1
WeightVals == {0, 2}

\* the unit of the raw loss values: every division of a term is exact
TermUnit == 24

\* the configurations of a call
FBCfgSet ==
    [dino_loss_weight : WeightVals,
     koleo_loss_weight : WeightVals,
     ibot_loss_weight : WeightVals,
     ibot_separate_head : BOOLEAN,
     centering : CenteringModes,
     local_crops_number : 0..MaxLocalCrops,
     free_shapes : BOOLEAN]

\* where the tensors of a batch are: "host" is a batch of the collator's
\* CPU path (is_cuda false; local_crop_len, local_patch_pos and
\* local_crop_dims are None in fixed-shape mode and Python lists in
\* free-shape mode), "host_tensors" a host batch whose three entries are
\* tensors, "cuda" a batch already on the device; attn_mask_gc and
\* attn_mask_lc are None in every batch of the collator
Residencies == {"host", "host_tensors", "cuda"}

\* the batches of a call: B samples, the local crops each sample really
\* has, the collator's n_masked_patches <= upperbound, and the residency
FBData ==
    { d \in [B : 1..MaxFBSamples,
             data_local_crops : 0..MaxLocalCrops,
             n_masked_patches : 0..MaxMasked,
             upperbound : 0..MaxMasked,
             residency : Residencies] :
        d.n_masked_patches <= d.upperbound }

\* what images["local_crop_len"] (and local_crop_dims) is
local_crop_len(c, d) ==
    IF d.residency = "host"
    THEN (IF c.free_shapes THEN "list" ELSE "None")
    ELSE "tensor"

\* the names the student forward reads besides the crops and the masks
StudentForwardReads ==
    {"attn_mask_gc", "attn_mask_lc", "local_crop_len", "local_patch_pos",
     "local_crop_dims"}

\* the names of StudentForwardReads bound when the input transfer is over:
\* line 176 binds attn_mask_gc alone, and the host branch binds attn_mask_lc
\* only if images["attn_mask_gc"] exists, which it never does
BoundByTransfer(d) ==
    IF d.residency = "cuda"
    THEN StudentForwardReads
    ELSE StudentForwardReads \ {"attn_mask_lc"}

\* a token: its kind (local / global cls token, masked patch token, zero
\* padding of the buffer), its place, and whether it went through the head
Token(kind, crop, idx) == [kind |-> kind, crop |-> crop, idx |-> idx, head |-> FALSE]

\* self.student.dino_head applied to a sequence of tokens, token by token
dino_head(x) == [n \in 1..Len(x) |-> [x[n] EXCEPT !.head = TRUE]]

\* xs[from..] (0-based from) of at most size elements
Slice(xs, from, size) == SubSeq(xs, from + 1, Min(Len(xs), from + size))

\* torch.chunk(sizes of a dimension of length L, chunks): the lengths of the
\* pieces, each of ceil(L / chunks) but the last
ChunkSizes(L, chunks) ==
    LET cs == (L + chunks - 1) \div chunks
        n == IF cs = 0 THEN 0 ELSE (L + cs - 1) \div cs
    IN [i \in 1..n |-> IF i < n THEN cs ELSE L - cs * (n - 1)]

\* x.squeeze().unsqueeze(0) of a tensor of leading sizes dims and a feature
\* dimension (> 1): the number of dimensions of the result
SqueezedNdim(dims) ==
    2 + Cardinality({ i \in 1..Len(dims) : dims[i] # 1 })

\* the local-crop cls token groups appended to inputs_for_student_head_list
\* (1a): in free-shape mode one per chunk of the (b, n_lc, d) tensor, in
\* fixed-shape mode the (b * n_lc, d) tensor as one group
LocalGroups(c, d) ==
    IF c.free_shapes
    THEN LET sizes == ChunkSizes(d.data_local_crops, c.local_crops_number)
             start(i) == SumSeq(SubSeq(sizes, 1, i - 1))
         IN [i \in 1..Len(sizes) |->
               [ndim |-> SqueezedNdim(<<d.B, sizes[i]>>),
                tokens |-> [n \in 1..(d.B * sizes[i]) |->
                              Token("local", start(i) + ((n - 1) % sizes[i]) + 1,
                                    ((n - 1) \div sizes[i]) + 1)]]]
    ELSE << [ndim |-> SqueezedNdim(<<d.B * d.data_local_crops>>),
             tokens |-> [n \in 1..(d.B * d.data_local_crops) |->
                           Token("local", ((n - 1) \div d.B) + 1, ((n - 1) % d.B) + 1)]] >>

\* the global-crop cls tokens (1b): n_global_crops * B tokens
GlobalGroup(d) ==
    [ndim |-> SqueezedNdim(<<n_global_crops * d.B>>),
     tokens |-> [n \in 1..(n_global_crops * d.B) |->
                   Token("global", ((n - 1) \div d.B) + 1, ((n - 1) % d.B) + 1)]]

\* buffer_tensor_patch_tokens (1c): upperbound rows, the first
\* n_masked_patches of them the selected patch tokens, the others zeros
PatchBuffer(d) ==
    [n \in 1..d.upperbound |->
        IF n <= d.n_masked_patches THEN Token("patch", 0, n) ELSE Token("zero", 0, n)]

\* the list with the global-crop group appended before the local-crop groups
HeadInputs_global_first(c, d) ==
    <<GlobalGroup(d)>> \o LocalGroups(c, d)
      \o (IF c.ibot_loss_weight > 0 /\ ~c.ibot_separate_head
          THEN << [ndim |-> 3, tokens |-> PatchBuffer(d)] >> ELSE <<>>)

\* inputs_for_student_head_list of a call
HeadInputs(c, d) ==
    LocalGroups(c, d) \o <<GlobalGroup(d)>>
      \o (IF c.ibot_loss_weight > 0 /\ ~c.ibot_separate_head
          THEN << [ndim |-> 3, tokens |-> PatchBuffer(d)] >> ELSE <<>>)

\* fmha.BlockDiagonalMask.from_tensor_list: the groups concatenated along
\* the token axis, with the block boundaries (the length of every group)
from_tensor_list(groups) ==
    [seqlens |-> [g \in 1..Len(groups) |-> Len(groups[g])],
     cat_inputs |-> Concat(groups)]

\* a split that leaves out the empty blocks
split_without_empty_blocks(seqlens, x) ==
    LET start(g) == SumSeq(SubSeq(seqlens, 1, g - 1))
        all == [g \in 1..Len(seqlens) |-> Slice(x, start(g), seqlens[g])]
    IN SelectSeq(all, LAMBDA grp : grp # <<>>)

\* _attn_bias.split(x): x cut at the block boundaries, in their order
split(seqlens, x) ==
    LET start(g) == SumSeq(SubSeq(seqlens, 1, g - 1))
    IN [g \in 1..Len(seqlens) |-> Slice(x, start(g), seqlens[g])]

\* the raw (unscaled, unweighted) value of the loss modules' outputs
Raw(name) ==
    CASE name = "dino_local" -> TermUnit
      [] name = "dino_global" -> 2 * TermUnit
      [] name = "koleo" -> 3 * TermUnit
      [] name = "ibot" -> 4 * TermUnit

\* the sum of the loss terms without the floor of 1 on the local ones
LossTerms_without_floor(c) ==
    (n_global_crops - 1) * n_global_crops + c.local_crops_number * n_global_crops

\* n_global_crops_loss_terms + n_local_crops_loss_terms
LossTerms(c) ==
    (n_global_crops - 1) * n_global_crops
        + Max(c.local_crops_number * n_global_crops, 1)

\* x.chunk(chunks) of a sequence of rows: the pieces, in order
chunk(xs, chunks) ==
    LET sizes == ChunkSizes(Len(xs), chunks)
        start(i) == SumSeq(SubSeq(sizes, 1, i - 1))
    IN [i \in 1..Len(sizes) |-> Slice(xs, start(i), sizes[i])]

\* the teacher backbone's x_norm_clstoken of the global crops: one row per
\* global crop and sample, in the row order of collated_global_crops
TeacherClsTokens(d) == GlobalGroup(d).tokens

\* the teacher cls tokens left in the order of the crops
teacher_cls_tokens_in_order(d) == TeacherClsTokens(d)

\* teacher_cls_tokens = torch.cat((chunks[1], chunks[0])) of the
\* n_global_crops chunks
teacher_cls_tokens(d) ==
    LET chunks == chunk(TeacherClsTokens(d), n_global_crops)
    IN chunks[2] \o chunks[1]

\* a teacher buffer allocated without the rows of the cls tokens
teacher_buffer_rows_without_cls(shared, upperbound, n_cls_tokens) == upperbound

\* the rows of buffer_tensor_teacher: new_zeros(upperbound + n_cls_tokens, _dim)
\* with a shared head, new_zeros(upperbound, _dim) with a separate iBOT head
teacher_buffer_rows(shared, upperbound, n_cls_tokens) ==
    IF shared THEN upperbound + n_cls_tokens ELSE upperbound

\* buffer_tensor_teacher after the copies: with a shared head the cls tokens
\* in rows [0, n_cls_tokens) and the masked patch tokens gathered into rows
\* [n_cls_tokens, n_cls_tokens + n_masked_patches); with a separate head
\* the masked patch tokens in rows [0, n_masked_patches); zeros elsewhere
TeacherBuffer(shared, d) ==
    LET cls == teacher_cls_tokens(d)
        n_cls_tokens == IF shared THEN Len(cls) ELSE 0
    IN [r \in 1..teacher_buffer_rows(shared, d.upperbound, Len(cls)) |->
          IF r <= n_cls_tokens THEN cls[r]
          ELSE IF r - n_cls_tokens <= d.n_masked_patches
          THEN Token("patch", 0, r - n_cls_tokens)
          ELSE Token("zero", 0, r - n_cls_tokens)]

\* masked_teacher_patch_tokens_after_head: rows [n_cls_tokens, n_cls_tokens +
\* n_masked_patches) of the head's output with a shared head, rows
\* [0, n_masked_patches) of the iBOT head's output with a separate one
masked_teacher_patch_tokens_after_head(shared, d) ==
    Slice(dino_head(TeacherBuffer(shared, d)),
          IF shared THEN Len(teacher_cls_tokens(d)) ELSE 0,
          d.n_masked_patches)

\* teacher_dino_softmaxed_centered_list: the pseudo-targets of the rows of
\* teacher_cls_tokens after the head, viewed as (n_global_crops, B, K)
teacher_dino_softmaxed_centered_list(d) ==
    chunk(dino_head(teacher_cls_tokens(d)), n_global_crops)

\* self.dino_loss(student_output_list = [s], teacher list = [t]): the
\* cross-entropy of row r of s against row r of t, for every row
dino_loss_rows(s_rows, t_rows) ==
    [r \in 1..Len(s_rows) |-> [student |-> s_rows[r], teacher |-> t_rows[r]]]

\* the calls get_teacher_output makes on the loss modules in "centering"
\* mode, the center updates made first
centering_calls_update_first(do_ibot) ==
    <<"dino_loss.update_center", "dino_loss.softmax_center_teacher">>
      \o (IF do_ibot THEN <<"ibot_patch_loss.update_center",
                            "ibot_patch_loss.softmax_center_teacher">>
          ELSE <<>>)

\* the calls get_teacher_output makes on the loss modules in "centering" mode
centering_calls(do_ibot) ==
    <<"dino_loss.softmax_center_teacher", "dino_loss.update_center">>
      \o (IF do_ibot THEN <<"ibot_patch_loss.softmax_center_teacher",
                            "ibot_patch_loss.update_center">>
          ELSE <<>>)

\* the calls get_teacher_output makes in "sinkhorn_knopp" mode
sinkhorn_knopp_calls(do_ibot) ==
    <<"dino_loss.sinkhorn_knopp_teacher">>
      \o (IF do_ibot THEN <<"ibot_patch_loss.sinkhorn_knopp_teacher">> ELSE <<>>)

\* SSLMetaArch(cfg) is about to be constructed for a call on some batch
InitFB ==
    /\ cfg \in FBCfgSet
    /\ pc = "fb_init"
    /\ iteration = 0
    /\ student = None
    /\ teacher = None
    /\ requires_grad = {}
    /\ param_groups = {}
    /\ grads = {}
    /\ mom = MomDen
    /\ loss_dict = None
    /\ loss_dict_reduced = None
    /\ calls = <<>>
    /\ logged = None
    /\ start_iter = 0
    /\ HDF5Idle
    /\ CollateIdle
    /\ \E d \in FBData :
          /\ cfg.free_shapes => d.data_local_crops >= 1
          /\ fb = [data |-> d, do_dino |-> FALSE, do_koleo |-> FALSE,
                   do_ibot |-> FALSE, attrs |-> {}, heads |-> {},
                   inputs |-> <<>>, seqlens |-> <<>>, cat_inputs |-> <<>>,
                   outputs_list |-> <<>>, local_after |-> <<>>,
                   global_after |-> <<>>, patch_after |-> <<>>,
                   teacher_targets |-> <<>>, global_pairs |-> <<>>,
                   transfer |-> "pending", bound |-> {},
                   loss_accumulator |-> 0]

fbRest == <<cfg, iteration, student, teacher, requires_grad, param_groups,
            grads, mom, loss_dict_reduced, logged, start_iter, collateVars,
            hdf5Vars>>

\* SSLMetaArch.__init__: the three flags, the loss modules and the heads.
\* dino_head is bound only under do_dino, so building the heads for iBOT
\* alone raises UnboundLocalError
FBConstruct ==
    /\ pc = "fb_init"
    /\ LET do_dino == cfg.dino_loss_weight > 0
           do_koleo == cfg.koleo_loss_weight > 0
           do_ibot == cfg.ibot_loss_weight > 0
       IN IF ~do_dino /\ do_ibot
          THEN pc' = "unbound_local_error" /\ UNCHANGED fb
          ELSE /\ pc' = "transfer"
               /\ fb' = [fb EXCEPT
                     !.do_dino = do_dino, !.do_koleo = do_koleo, !.do_ibot = do_ibot,
                     !.attrs = (IF do_dino THEN {"dino_loss", "dino_loss_weight"} ELSE {})
                         \cup (IF do_dino /\ do_koleo THEN {"koleo_loss"} ELSE {})
                         \cup (IF do_ibot THEN {"ibot_patch_loss", "ibot_loss_weight"}
                               ELSE {}),
                     !.heads = (IF do_dino \/ do_ibot THEN {"dino_head"} ELSE {})
                         \cup (IF do_ibot /\ cfg.ibot_separate_head
                               THEN {"ibot_head"} ELSE {})]
    /\ UNCHANGED <<fbRest, loss_dict, calls>>

\* the input transfer of forward_backward (lines 176-203): on a host batch
\* every entry is sent to the device with .cuda(), which None and a list do
\* not have (AttributeError at images["local_crop_len"].cuda)
FBTransfer ==
    /\ pc = "transfer"
    /\ IF fb.data.residency # "cuda" /\ local_crop_len(cfg, fb.data) # "tensor"
       THEN /\ pc' = "attribute_error"
            /\ fb' = [fb EXCEPT !.transfer = "AttributeError",
                                !.bound = {"attn_mask_gc"}]
       ELSE /\ pc' = "teacher_output"
            /\ fb' = [fb EXCEPT !.transfer = "done",
                                !.bound = BoundByTransfer(fb.data)]
    /\ UNCHANGED <<fbRest, loss_dict, calls>>

\* get_teacher_output(): the teacher heads, then the pseudo-targets of the
\* configured centering mode
FBTeacherOutput ==
    /\ pc = "teacher_output"
    /\ IF "dino_head" \notin fb.heads
          \/ (fb.do_ibot /\ cfg.ibot_separate_head /\ "ibot_head" \notin fb.heads)
       THEN pc' = "attribute_error" /\ UNCHANGED calls
       ELSE IF cfg.centering = "centering"
       THEN IF "dino_loss" \in fb.attrs
            THEN pc' = "student_pack" /\ calls' = calls \o centering_calls(fb.do_ibot)
            ELSE pc' = "attribute_error" /\ UNCHANGED calls
       ELSE IF cfg.centering = "sinkhorn_knopp"
       THEN IF "dino_loss" \in fb.attrs
            THEN pc' = "student_pack" /\ calls' = calls \o sinkhorn_knopp_calls(fb.do_ibot)
            ELSE pc' = "attribute_error" /\ UNCHANGED calls
       ELSE pc' = "not_implemented_error" /\ UNCHANGED calls
    /\ fb' = IF pc' = "student_pack"
             THEN [fb EXCEPT !.teacher_targets =
                                teacher_dino_softmaxed_centered_list(fb.data)]
             ELSE fb
    /\ UNCHANGED <<fbRest, loss_dict>>

\* the student forward and steps 1a-1c and the packing of step 2: the
\* forward reads names the transfer may have left unbound; torch.chunk(x, 0)
\* raises, and so does the concatenation of groups that do not all have
\* three dimensions
FBPack ==
    /\ pc = "student_pack"
    /\ IF ~(StudentForwardReads \subseteq fb.bound)
       THEN pc' = "unbound_local_error" /\ UNCHANGED fb
       ELSE IF cfg.free_shapes /\ cfg.local_crops_number = 0
       THEN pc' = "runtime_error" /\ UNCHANGED fb
       ELSE LET groups == HeadInputs(cfg, fb.data) IN
            IF \E g \in 1..Len(groups) : groups[g].ndim # 3
            THEN pc' = "runtime_error" /\ UNCHANGED fb
            ELSE LET tl == [g \in 1..Len(groups) |-> groups[g].tokens]
                     packed == from_tensor_list(tl)
                 IN /\ pc' = "head"
                    /\ fb' = [fb EXCEPT !.inputs = tl,
                                        !.seqlens = packed.seqlens,
                                        !.cat_inputs = packed.cat_inputs]
    /\ UNCHANGED <<fbRest, loss_dict, calls>>

\* student_head_output = self.student.dino_head(cat_inputs);
\* outputs_list = _attn_bias.split(student_head_output)
FBHeadSplit ==
    /\ pc = "head"
    /\ fb' = [fb EXCEPT !.outputs_list = split(fb.seqlens, dino_head(fb.cat_inputs))]
    /\ pc' = "consume"
    /\ UNCHANGED <<fbRest, loss_dict, calls>>

\* the pops of fixed-shape mode, whatever the mode
PopsOfFixedShapes(c) ==
    2 + (IF c.ibot_loss_weight > 0 /\ ~c.ibot_separate_head THEN 1 ELSE 0)

\* the number of outputs_list.pop(0) of steps 3a-3c
Pops(c) ==
    (IF c.free_shapes THEN c.local_crops_number ELSE 1) + 1
      + (IF c.ibot_loss_weight > 0 /\ ~c.ibot_separate_head THEN 1 ELSE 0)

\* steps 3a-3c: the groups are popped from the front of outputs_list;
\* pop(0) of an empty list raises IndexError
FBConsume ==
    /\ pc = "consume"
    /\ IF Len(fb.outputs_list) < Pops(cfg)
       THEN pc' = "index_error" /\ UNCHANGED fb
       ELSE LET nl == IF cfg.free_shapes THEN cfg.local_crops_number ELSE 1
                shared == fb.do_ibot /\ ~cfg.ibot_separate_head
            IN /\ pc' = "losses"
               /\ fb' = [fb EXCEPT
                     !.local_after = SubSeq(fb.outputs_list, 1, nl),
                     !.global_after = fb.outputs_list[nl + 1],
                     !.patch_after =
                         IF shared
                         THEN Slice(fb.outputs_list[nl + 2], 0, fb.data.n_masked_patches)
                         ELSE IF fb.do_ibot
                         THEN Slice(dino_head(PatchBuffer(fb.data)), 0,
                                    fb.data.n_masked_patches)
                         ELSE <<>>,
                     !.outputs_list = SubSeq(fb.outputs_list, Pops(cfg) + 1,
                                             Len(fb.outputs_list))]
    /\ UNCHANGED <<fbRest, loss_dict, calls>>

\* loss_dict["koleo_loss"] = koleo_loss / loss_scales, where koleo_loss =
\* cfg.dino.koleo_loss_weight * sum(self.koleo_loss(p) for p in chunks)
koleo_display(weight, koleo_sum) == (weight * koleo_sum) \div 2

\* every key stored whatever the flags
loss_dict_keys_all(c, f) ==
    {"dino_local_crops_loss", "dino_global_crops_loss", "koleo_loss", "ibot_loss"}

\* the keys forward_backward stores in loss_dict
loss_dict_keys(c, f) ==
    (IF c.local_crops_number > 0 THEN {"dino_local_crops_loss"} ELSE {})
      \cup (IF f.do_dino THEN {"dino_global_crops_loss"} ELSE {})
      \cup (IF f.do_dino /\ f.do_koleo THEN {"koleo_loss"} ELSE {})
      \cup (IF f.do_ibot THEN {"ibot_loss"} ELSE {})

\* the loss mapping and the backward scalar of the flags (lines 456-535)
Losses(c, f) ==
    LET local == c.local_crops_number > 0
        dino_local == Raw("dino_local") \div LossTerms(c)
        dino_global == (Raw("dino_global") * 2) \div LossTerms(c)
        koleo == f.do_dino /\ f.do_koleo
        ibot_patch_loss == Raw("ibot")
    IN [loss_dict |->
          [k \in loss_dict_keys(c, f) |->
             CASE k = "dino_local_crops_loss" -> dino_local
               [] k = "dino_global_crops_loss" -> dino_global
               [] k = "koleo_loss" -> koleo_display(c.koleo_loss_weight, Raw("koleo"))
               [] k = "ibot_loss" -> ibot_patch_loss \div 2],
        loss_accumulator |->
             (IF local THEN c.dino_loss_weight * dino_local ELSE 0)
           + (IF f.do_dino THEN c.dino_loss_weight * dino_global ELSE 0)
           + (IF koleo THEN c.koleo_loss_weight * Raw("koleo") ELSE 0)
           + (IF f.do_ibot THEN c.ibot_loss_weight * ibot_patch_loss ELSE 0)]

\* the loss terms, backprop_loss(loss_accumulator) and return loss_dict; the
\* loss modules and weights are attributes only if __init__ created them
FBLosses ==
    /\ pc = "losses"
    /\ IF \/ (cfg.local_crops_number > 0 \/ fb.do_dino) /\ "dino_loss" \notin fb.attrs
          \/ fb.do_ibot /\ "ibot_patch_loss" \notin fb.attrs
       THEN pc' = "attribute_error" /\ UNCHANGED <<fb, loss_dict, calls>>
       ELSE /\ pc' = "fb_returned"
            /\ loss_dict' = Losses(cfg, fb).loss_dict
            /\ fb' = [fb EXCEPT
                  !.loss_accumulator = Losses(cfg, fb).loss_accumulator,
                  !.global_pairs =
                      IF fb.do_dino
                      THEN dino_loss_rows(fb.global_after, Concat(fb.teacher_targets))
                      ELSE <<>>]
            /\ calls' = Append(calls, "backprop_loss")
    /\ UNCHANGED fbRest

NextFB ==
    \/ FBConstruct
    \/ FBTransfer
    \/ FBTeacherOutput
    \/ FBPack
    \/ FBHeadSplit
    \/ FBConsume
    \/ FBLosses

SpecFB == InitFB /\ [][NextFB]_vars

\* ========================================================================
\* PART 4.  HDF5Dataset
\* ========================================================================
\* the number of HDF5Dataset instances of the modelled programs
NInstances == 2

\* glob.glob(extra_full_path) of an instance: the files of its root and split
FileLists == {<<>>, <<"a.hdf5">>, <<"b.hdf5">>, <<"a.hdf5", "b.hdf5">>}

\* json.loads(file['file_index'][()])['files'] of a file, without the class
\* fields
file_index(f) == <<[path |-> "img_0"]>>

\* the instances after construction: _entries is None (loaded is FALSE)
DatasetSet ==
    [file_list : FileLists, do_short_run : BOOLEAN, loaded : {FALSE},
     entries : {<<>>}]

RECURSIVE OpenFiles(_, _, _)
\* the loop of _load_extra over file_list on the registry hh and the File
\* objects hs: file = h5py.File(hdf5_file, 'r'); self.hdf5_handles[hdf5_file]
\* = file
OpenFiles(file_list, hh, hs) ==
    IF file_list = <<>> THEN [hdf5_handles |-> hh, handles |-> hs]
    ELSE OpenFiles(Tail(file_list),
                   [hh EXCEPT ![Head(file_list)] = Len(hs) + 1],
                   Append(hs, "open"))

RECURSIVE Accumulated(_)
\* accumulated of _load_extra: every entry of every file, with its hdf5_file
Accumulated(file_list) ==
    IF file_list = <<>> THEN <<>>
    ELSE LET hdf5_file == Head(file_list) IN
         [n \in 1..Len(file_index(hdf5_file)) |->
             [path |-> file_index(hdf5_file)[n].path, hdf5_file |-> hdf5_file]]
         \o Accumulated(Tail(file_list))

\* file_list of _load_extra: file_list[:1] under do_short_run
LoadedFileList(d) ==
    IF d.do_short_run THEN SubSeq(d.file_list, 1, Min(1, Len(d.file_list)))
    ELSE d.file_list

\* _get_entries of instance i: _load_extra when _entries is None; the state
\* of the registry, the File objects and the instances after it
AfterGetEntries(i) ==
    IF datasets[i].loaded
    THEN [hdf5_handles |-> hdf5_handles, handles |-> handles,
          datasets |-> datasets]
    ELSE LET file_list == LoadedFileList(datasets[i])
             opened == OpenFiles(file_list, hdf5_handles, handles)
         IN [hdf5_handles |-> opened.hdf5_handles,
             handles |-> opened.handles,
             datasets |-> [datasets EXCEPT ![i].loaded = TRUE,
                                           ![i].entries = Accumulated(file_list)]]

InitHDF5 ==
    /\ cfg = None
    /\ pc = "hdf5"
    /\ iteration = 0
    /\ student = None
    /\ teacher = None
    /\ requires_grad = {}
    /\ param_groups = {}
    /\ grads = {}
    /\ mom = MomDen
    /\ loss_dict = None
    /\ loss_dict_reduced = None
    /\ calls = <<>>
    /\ logged = None
    /\ start_iter = 0
    /\ fb = None
    /\ CollateIdle
    /\ hdf5_handles = [f \in Files |-> Unregistered]
    /\ handles = <<>>
    /\ datasets \in SeqsOfLen(DatasetSet, NInstances)
    /\ read = <<>>

\* __len__ of an instance: entries = self._get_entries()
DatasetLen ==
    \E i \in 1..Len(datasets) :
        LET after == AfterGetEntries(i) IN
        /\ hdf5_handles' = after.hdf5_handles
        /\ handles' = after.handles
        /\ datasets' = after.datasets
        /\ UNCHANGED <<read, trainVars, collateVars, fbVars>>

\* get_image_data(index) of an instance, for an index of its entries:
\* hdf5_file = self.hdf5_handles[entry["hdf5_file"]];
\* hdf5_file[image_relpath][()] reads through that File object
GetImageData ==
    \E i \in 1..Len(datasets) :
        LET after == AfterGetEntries(i) IN
        \E index \in 0..(Len(after.datasets[i].entries) - 1) :
            LET entry == after.datasets[i].entries[index + 1]
                hdf5_file == after.hdf5_handles[entry.hdf5_file]
            IN /\ hdf5_handles' = after.hdf5_handles
               /\ handles' = after.handles
               /\ datasets' = after.datasets
               /\ read' = <<[instance |-> i, hdf5_path |-> entry.hdf5_file,
                             hdf5_file |-> hdf5_file,
                             state |-> IF hdf5_file = Unregistered
                                       THEN "KeyError"
                                       ELSE after.handles[hdf5_file]]>>
               /\ UNCHANGED <<trainVars, collateVars, fbVars>>

\* close() of an instance: for handle in self.hdf5_handles.values():
\* handle.close()
DatasetClose ==
    \E i \in 1..Len(datasets) :
        /\ handles' = [h \in 1..Len(handles) |->
                          IF \E f \in Files : hdf5_handles[f] = h
                          THEN "closed" ELSE handles[h]]
        /\ UNCHANGED <<hdf5_handles, datasets, read, trainVars, collateVars,
                       fbVars>>

NextHDF5 ==
    \/ DatasetLen
    \/ GetImageData
    \/ DatasetClose

SpecHDF5 == InitHDF5 /\ [][NextHDF5]_vars

\* ========================================================================
\* Properties of do_train and SSLMetaArch
\* ========================================================================
\* the positions of the loop of do_train
LoopPcs ==
    {"loop", "schedule", "forward_backward", "optimizer", "update_teacher",
     "reduce", "nan_check", "logging", "checkpoint"}

\* the positions of an iteration that follow the call of update_teacher
AfterUpdatePcs == {"reduce", "nan_check", "logging", "checkpoint", "assertion_error"}

\* the indexes of the calls of `name` in the current iteration's calls
CallsOf(name) == { n \in 1..Len(calls) : calls[n] = name }

\* the parameter-update call of the run's configuration
StepCall == IF cfg.grad_scaler THEN "fp16_scaler.step" ELSE "optimizer.step"

\* C1: in every iteration update_teacher is called exactly once, after the
\* iteration's optimizer parameter update (optimizer.step, or
\* fp16_scaler.step with a grad scaler) and never before it: the calls of an
\* iteration hold at most one update_teacher, a parameter-update call
\* precedes it, and once the iteration is past the update (up to the start
\* of the next iteration) they hold exactly one.
TeacherUpdatedOnceAfterStep ==
    pc \in LoopPcs \cup {"assertion_error", "returned"} =>
        /\ Cardinality(CallsOf("update_teacher")) <= 1
        /\ \A n \in CallsOf("update_teacher") :
              /\ Cardinality(CallsOf(StepCall)) = 1
              /\ \A m \in CallsOf(StepCall) : m < n
        /\ (pc \in AfterUpdatePcs \/ (pc = "loop" /\ calls # <<>>)) =>
              Cardinality(CallsOf("update_teacher")) = 1
        /\ pc \in {"schedule", "forward_backward", "optimizer", "update_teacher"} =>
              CallsOf("update_teacher") = {}

\* C1 witness: an iteration has made its parameter update with a grad scaler
\* and then its teacher update
TeacherUpdatedOnceWitness ==
    /\ pc = "reduce"
    /\ cfg.grad_scaler
    /\ iteration = 1
    /\ calls = <<"apply_optim_scheduler", "zero_grad", "forward_backward",
                 "fp16_scaler.step", "update_teacher">>

\* C2: update_teacher(m) sets every teacher parameter to
\* m * teacher_old + (1 - m) * student, student being the parameter at the
\* same position of the same-named submodule; no pair is skipped or crossed.
EmaEveryPair ==
    [][pc = "update_teacher" =>
        /\ DOMAIN teacher' = DOMAIN teacher
        /\ \A k \in DOMAIN teacher :
             /\ Len(teacher'[k]) = Len(teacher[k])
             /\ \A i \in 1..Len(teacher[k]) :
                  /\ Len(teacher'[k][i]) = Len(teacher[k][i])
                  /\ \A j \in 1..Len(teacher[k][i]) :
                       teacher'[k][i][j] * MomDen
                         = mom * teacher[k][i][j] + (MomDen - mom) * student[k][i][j]
    ]_vars

\* C2 witness: an update with 0 < m < 1 has mixed a separate iBOT head and a
\* two-parameter backbone module whose parameters ended up different
EmaEveryPairWitness ==
    /\ pc = "reduce"
    /\ "ibot_head" \in DOMAIN teacher
    /\ mom \notin {0, MomDen}
    /\ teacher["backbone"][1][1] \notin PVals
    /\ teacher["backbone"][1][2] \in PVals
    /\ teacher["ibot_head"][1][1] \notin PVals
    /\ student["backbone"][1][1] # student["backbone"][1][2]

\* C3: within the training loop the teacher parameters are written by
\* update_teacher only: no other step of the loop (forward_backward, the
\* optimizer step, ...) changes a teacher parameter, no teacher parameter
\* requires a gradient, and the optimizer's groups hold student parameters only.
TeacherWrittenOnlyByUpdate ==
    /\ [](pc \in LoopPcs =>
            /\ param_groups \subseteq ParamIds("student", student)
            /\ requires_grad \cap ParamIds("teacher", teacher) = {}
            /\ grads \cap ParamIds("teacher", teacher) = {})
    /\ [][(pc \in LoopPcs /\ pc # "update_teacher") => teacher' = teacher]_vars

\* C3 witness: in the first iteration of a fresh run the optimizer step has
\* changed the student, and the teacher still holds the values it was given
\* by prepare_for_distributed_training
TeacherWrittenOnlyByUpdateWitness ==
    /\ pc = "update_teacher"
    /\ iteration = 0
    /\ CallsOf(StepCall) # {}
    /\ \A k \in DOMAIN student : student[k][1][1] = PUnit
    /\ \A k \in DOMAIN teacher : teacher[k][1][1] = 0

\* C4 (as claimed): whenever the reduced total loss of an iteration is
\* non-finite (NaN, +Inf or -Inf) the run aborts in that iteration: the
\* logging and checkpointing positions are reached with a finite total only.
NonFiniteLossAborts ==
    pc \in {"logging", "checkpoint"} =>
        IsFiniteClass(FSum(DictValues(cfg, loss_dict_reduced)))

\* C5 (as claimed): a configuration whose centering mode is neither
\* "centering" nor "sinkhorn_knopp" is rejected when SSLMetaArch is
\* constructed: such a run never gets past the construction.
UnsupportedCenteringRejectedAtConstruction ==
    cfg.centering \notin {"centering", "sinkhorn_knopp"} =>
        pc \in {"main", "config_error"}

\* the calls that hand loss values to the metric logger or to wandb
LogCalls == CallsOf("metric_logger.update") \cup CallsOf("wandb.log")

\* a reduction step leaves in loss_dict_reduced, for every term, the sum of
\* the replicas' values (this replica's and some values of the others)
\* divided by the number of replicas
ReducedIsMeanOverReplicas ==
    pc = "reduce" =>
        \A k \in LossKeySet(cfg) :
            \E others \in [1..(cfg.global_size - 1) -> LossValues] :
                loss_dict_reduced'[k] =
                    FDiv(FSum(<<loss_dict[k]>> \o others), cfg.global_size)

\* between the reduction and the logging the reduced values do not change
ReducedKeptUntilLogged ==
    pc \in {"nan_check", "logging"} => loss_dict_reduced' = loss_dict_reduced

\* C16: in every iteration the cross-process reduction of the loss mapping
\* happens after forward_backward has returned and before any loss value is
\* handed to the metric logger or to wandb (with several replicas the
\* all_reduce call lies between the two), and every logged loss value is the
\* sum of the term over the replicas divided by the number of replicas: the
\* reduced value is that mean for some values of the other replicas, it is
\* not changed between the reduction and the logging, and it is what is
\* logged.
LossesReducedBeforeLogged ==
    /\ [](pc \in LoopPcs =>
            /\ \A n \in LogCalls :
                  /\ \E m \in CallsOf("forward_backward") : m < n
                  /\ cfg.global_size > 1 =>
                       \E m \in CallsOf("all_reduce") :
                           /\ m < n
                           /\ \E j \in CallsOf("forward_backward") : j < m
            /\ \A m \in CallsOf("all_reduce") : cfg.global_size > 1
            /\ pc = "checkpoint" =>
                  /\ LogCalls # {}
                  /\ \A k \in LossKeySet(cfg) : logged[k] = loss_dict_reduced[k])
    /\ [][ReducedIsMeanOverReplicas]_vars
    /\ [][ReducedKeptUntilLogged]_vars

\* C16 witness: with two replicas an iteration has logged, after the
\* all_reduce, the value LossUnit, the half of the tensor's all-reduced value
LossesReducedBeforeLoggedWitness ==
    /\ pc = "checkpoint"
    /\ cfg.global_size = 2
    /\ CallsOf("all_reduce") # {}
    /\ loss_dict["dino_global_crops_loss"] = Float("finite", 2 * LossUnit)
    /\ logged["dino_global_crops_loss"] = Float("finite", LossUnit)



\* the calls that record something of an iteration
RecordingCalls ==
    {"metric_logger.update", "wandb.log", "do_test", "periodic_checkpointer.step"}

\* the step taken from the NaN test when the reduced sum is NaN: the abort,
\* with nothing recorded and the iteration counter where it was
NanStepAborts ==
    (pc = "nan_check" /\ IsNan(FSum(DictValues(cfg, loss_dict_reduced)))) =>
        /\ pc' = "assertion_error"
        /\ iteration' = iteration
        /\ calls' = calls
        /\ logged' = logged

\* no step is taken after the abort
NoStepAfterAbort == pc # "assertion_error"

\* C26: in an iteration of do_train whose reduced loss sum is NaN the abort
\* comes before anything of that iteration is recorded: no
\* metric_logger.update, no wandb.log, no do_test and no
\* periodic_checkpointer.step is made for it and the iteration counter is
\* not advanced; the recording steps are reached only with a sum that is
\* not NaN.
NanAbortsBeforeRecording ==
    /\ [](/\ pc = "assertion_error" =>
                /\ IsNan(FSum(DictValues(cfg, loss_dict_reduced)))
                /\ CallsOf("forward_backward") # {}
                /\ \A c \in RecordingCalls : CallsOf(c) = {}
                /\ logged = None
          /\ pc \in {"logging", "checkpoint"} =>
                ~IsNan(FSum(DictValues(cfg, loss_dict_reduced)))
          /\ (\E c \in RecordingCalls : CallsOf(c) # {}) =>
                pc \in {"checkpoint", "loop"})
    /\ [][NanStepAborts]_vars
    /\ [][NoStepAfterAbort]_vars

\* C26 witness: the second iteration has aborted on a NaN sum (here of
\* +Inf and -Inf terms, none of them NaN), after its forward_backward,
\* optimizer step and teacher update, with nothing recorded
NanAbortsBeforeRecordingWitness ==
    /\ pc = "assertion_error"
    /\ iteration = 1
    /\ CallsOf("update_teacher") # {}
    /\ CallsOf("metric_logger.update") = {}
    /\ CallsOf("periodic_checkpointer.step") = {}
    /\ logged = None
    /\ \A k \in DOMAIN loss_dict_reduced : ~IsNan(loss_dict_reduced[k])


\* the positions of the body of the loop, the return test passed
BodyPcs == LoopPcs \ {"loop"}

\* the positions of do_train from the loop on
TrainPcs == LoopPcs \cup {"returned", "assertion_error", "not_implemented_error"}

\* the iteration counter moves only at the start of the loop, to start_iter,
\* and at the end of a completed step, by exactly 1
CounterAdvancesByOne ==
    /\ pc = "do_train" => iteration' = start_iter'
    /\ pc = "checkpoint" =>
          iteration' = iteration + 1 /\ pc' = "loop" /\ start_iter' = start_iter
    /\ pc \notin {"do_train", "checkpoint"} =>
          iteration' = iteration /\ start_iter' = start_iter

\* C27: the loop of do_train starts at start_iter, advances the iteration
\* counter by exactly 1 per completed step, executes no training step
\* (schedule lookup, forward_backward, optimizer step, teacher update) with
\* iteration > max_iter, and so ends after at most max_iter - start_iter + 1
\* steps, however many batches the loader can give: when the loop returns,
\* exactly max_iter - start_iter + 1 steps were completed.
LoopBoundedByMaxIter ==
    /\ [](pc \in TrainPcs =>
            /\ start_iter <= iteration
            /\ iteration - start_iter <= max_iter - start_iter + 1
            /\ pc \in BodyPcs \cup {"assertion_error", "not_implemented_error"} =>
                  iteration <= max_iter
            /\ (pc = "loop" /\ calls = <<>>) => iteration = start_iter
            /\ pc = "returned" =>
                  /\ calls = <<>>
                  /\ iteration > max_iter
                  /\ iteration - start_iter = max_iter - start_iter + 1)
    /\ [][CounterAdvancesByOne]_vars

\* C27 witness: a run started at iteration 0 has returned after
\* max_iter + 1 completed steps
LoopBoundedByMaxIterWitness ==
    /\ pc = "returned"
    /\ start_iter = 0
    /\ HDF5Idle
    /\ iteration = max_iter + 1
    /\ max_iter >= 1


\* the preparation leaves the student's values and the key sets as they were
PrepareKeepsStudent ==
    pc = "constructed" =>
        /\ student' = student
        /\ DOMAIN teacher' = DOMAIN teacher

\* C28: after prepare_for_distributed_training, for every submodule key k of
\* the student (backbone, dino_head, ibot_head) the teacher submodule k
\* holds exactly the student's state for k (the state the student had
\* before the call), so teacher and student parameters are equal pair by
\* pair when do_train is entered.
TeacherLoadedFromStudent ==
    /\ [](pc = "do_train" =>
            /\ DOMAIN teacher = DOMAIN student
            /\ \A k \in DOMAIN student :
                  /\ Len(teacher[k]) = Len(student[k])
                  /\ \A i \in 1..Len(student[k]) :
                        /\ Len(teacher[k][i]) = Len(student[k][i])
                        /\ \A j \in 1..Len(student[k][i]) :
                              teacher[k][i][j] = student[k][i][j])
    /\ [][PrepareKeepsStudent]_vars

\* C28 witness: a model with a separate iBOT head is prepared, its student
\* backbone holding two different values, and the teacher holds them too
TeacherLoadedFromStudentWitness ==
    /\ pc = "do_train"
    /\ "ibot_head" \in DOMAIN student
    /\ student["backbone"][1][1] # student["backbone"][1][2]
    /\ student["ibot_head"][1][1] # student["dino_head"][1][1]
    /\ teacher = student


\* the step of apply_optim_scheduler keeps the groups, their multipliers and
\* their is_last_layer flags
GroupsKept ==
    pc = "apply_schedules" =>
        /\ Len(param_groups') = Len(param_groups)
        /\ \A g \in 1..Len(param_groups) :
              /\ param_groups'[g].is_last_layer = param_groups[g].is_last_layer
              /\ param_groups'[g].lr_multiplier = param_groups[g].lr_multiplier
              /\ param_groups'[g].wd_multiplier = param_groups[g].wd_multiplier

Computed == cpc # "input" /\ loc.reached = "return"

\* the mask rows appended by the first loop (ratio-drawn), after the shuffle
DrawnRows == { r \in 1..Len(loc.origin) : loc.origin[r] = "drawn" }

\* the true cells of the collated masks
TrueCells ==
    { rq \in (1..Len(loc.collated_masks)) \X (1..Len(loc.collated_masks[1])) :
        loc.collated_masks[rq[1]][rq[2]] }

MaskIndicesMatchMasks ==
    Computed =>
        LET W == Len(loc.collated_masks[1])
            idx == loc.mask_indices_list
        IN /\ Len(idx) = Cardinality(TrueCells)
           /\ \A n \in 1..(Len(idx) - 1) : idx[n] < idx[n + 1]
           /\ { idx[n] : n \in 1..Len(idx) }
                = { (rq[1] - 1) * W + (rq[2] - 1) : rq \in TrueCells }
           /\ cpc = "returned" =>
                 /\ batch.n_masked_patches = Cardinality(TrueCells)
                 /\ batch.mask_indices_list = idx
                 /\ batch.collated_masks = loc.collated_masks

\* C7 witness: a returned batch with masked patches in two rows, the first
\* row not being one of them
MaskIndicesMatchMasksWitness ==
    /\ cpc = "returned"
    /\ batch.n_masked_patches >= 3
    /\ CountTrue(batch.collated_masks[1]) = 0
    /\ Cardinality({ r \in 1..Len(batch.collated_masks) :
                       CountTrue(batch.collated_masks[r]) > 0 }) = 2

\* the number of masked patches in the rows before row r
MaskedBefore(r) ==
    SumSeq([x \in 1..(r - 1) |-> CountTrue(loc.collated_masks[x])])

\* C8: for every mask row with a masked patch, the masks_weight entries of
\* that row's masked positions all equal 1 / (masked patches of the row), so
\* they sum to 1; rows without a masked patch contribute no entry, so
\* masks_weight has exactly n_masked_patches entries.
WeightsNormalisedPerRow ==
    Computed =>
        /\ Len(loc.masks_weight) = Len(loc.mask_indices_list)
        /\ Len(loc.masks_weight) = MaskedBefore(Len(loc.collated_masks) + 1)
        /\ \A r \in 1..Len(loc.collated_masks) :
              LET cnt == CountTrue(loc.collated_masks[r]) IN
              \A n \in (MaskedBefore(r) + 1)..(MaskedBefore(r) + cnt) :
                  /\ loc.masks_weight[n].num = 1
                  /\ loc.masks_weight[n].den = cnt
                  /\ cnt * loc.masks_weight[n].num = loc.masks_weight[n].den
        /\ cpc = "returned" =>
              /\ batch.masks_weight = loc.masks_weight
              /\ Len(batch.masks_weight) = batch.n_masked_patches

\* C8 witness: a returned batch whose first two rows have one and two masked
\* patches
WeightsNormalisedPerRowWitness ==
    /\ cpc = "returned"
    /\ CountTrue(batch.collated_masks[1]) = 1
    /\ CountTrue(batch.collated_masks[2]) = 2
    /\ batch.masks_weight = << [num |-> 1, den |-> 1],
                               [num |-> 1, den |-> 2], [num |-> 1, den |-> 2] >>

\* the k of a call and the upper end of the i-th (1-based) of the k equal
\* sub-intervals of [r_min, r_max], times N, truncated
MaskedRowsOfCall == (BatchRows(cin) * cin.mask_probability) \div PDen

ExpectedMax(i) ==
    LET k == MaskedRowsOfCall
        N == n_tokens(cin.img_size, cin.patch_size)
    IN (N * (cin.mask_ratio_tuple[1] * k
               + i * (cin.mask_ratio_tuple[2] - cin.mask_ratio_tuple[1])))
         \div (k * RDen)

\* C9: upperbound is the larger of (a) the sum over the k masked rows of
\* int(N * upper end of the row's ratio sub-interval) and (b) the realized
\* masked-patch count; hence upperbound >= n_masked_patches.
UpperboundIsMax ==
    Computed =>
        LET est == SumSeq([i \in 1..MaskedRowsOfCall |-> ExpectedMax(i)])
            n == Cardinality(TrueCells)
        IN /\ loc.upperbound = Max(est, n)
           /\ loc.upperbound >= Len(loc.mask_indices_list)
           /\ cpc = "returned" =>
                 /\ batch.upperbound = loc.upperbound
                 /\ batch.upperbound >= batch.n_masked_patches

\* C9 witness: a returned batch whose realized count exceeds the estimate
\* (which is not zero), so that the refresh took effect
UpperboundIsMaxWitness ==
    /\ cpc = "returned"
    /\ UpperboundEstimate(cin) > 0
    /\ batch.n_masked_patches > UpperboundEstimate(cin)
    /\ batch.upperbound = batch.n_masked_patches

\* C10 (as claimed): every mask row of a collator output, in fixed-shape and
\* in free-shape mode alike, has at most half of its patches set to true.
MasksWithinHalf ==
    cpc = "returned" =>
        \A r \in 1..Len(batch.collated_masks) :
            2 * CountTrue(batch.collated_masks[r]) <= Len(batch.collated_masks[r])

\* the keys of the mapping the collator returns (the crops aside)
OutputKeys ==
    {"collated_masks", "mask_indices_list", "masks_weight", "upperbound",
     "n_masked_patches", "local_crop_len", "local_patch_pos", "local_crop_dims",
     "num_ch_list"}

\* C11 (as claimed): for each of the three input variants the call returns
\* without error a mapping with every output key, and in fixed-shape mode
\* local_crop_len, local_patch_pos and local_crop_dims are null.
CollateReturnsForEveryVariant ==
    cpc # "input" =>
        /\ cpc = "returned"
        /\ DOMAIN batch = OutputKeys
        /\ ~cin.do_free_shapes =>
              /\ batch.local_crop_len = None
              /\ batch.local_patch_pos = None
              /\ batch.local_crop_dims = None


\* a <= b and a = b for fractions with positive denominators
FracLe(a, b) == a.num * b.den <= b.num * a.den

FracEq(a, b) == a.num * b.den = b.num * a.den

\* r_min + i * (r_max - r_min) / k for the call's ratio range, as a fraction
SubIntervalEnd(i) ==
    [num |-> cin.mask_ratio_tuple[1] * MaskedRowsOfCall
               + i * (cin.mask_ratio_tuple[2] - cin.mask_ratio_tuple[1]),
     den |-> MaskedRowsOfCall * RDen]

\* C19: for k masked rows and ratio range [r_min, r_max], the ratio of the
\* i-th masked row (i = 0..k-1, before any shuffle) is drawn from
\* [r_min + i*(r_max-r_min)/k, r_min + (i+1)*(r_max-r_min)/k]; these k
\* sub-intervals are contiguous and cover [r_min, r_max], so every drawn
\* ratio lies within [r_min, r_max].  In fixed-shape mode the i-th generated
\* mask has at most int(N * upper end) masked patches, and a free-shape mask
\* drawn with upper end 0 is empty.
RatioSubIntervals ==
    cpc # "input" =>
        LET k == MaskedRowsOfCall
            args == loc.uniform_args
            r_min == [num |-> cin.mask_ratio_tuple[1], den |-> RDen]
            r_max == [num |-> cin.mask_ratio_tuple[2], den |-> RDen]
        IN /\ Len(args) = k
           /\ \A i \in 1..k :
                 /\ FracEq(args[i].lo, SubIntervalEnd(i - 1))
                 /\ FracEq(args[i].hi, SubIntervalEnd(i))
                 /\ FracLe(r_min, args[i].lo)
                 /\ FracLe(args[i].lo, args[i].hi)
                 /\ FracLe(args[i].hi, r_max)
                 /\ (r_max.num - r_min.num) * args[i].hi.den
                      = k * RDen * (args[i].hi.num - args[i].lo.num)
                 /\ ~cin.do_free_shapes =>
                       CountTrue(loc.masks_list[i])
                         <= (n_tokens(cin.img_size, cin.patch_size) * args[i].hi.num)
                              \div args[i].hi.den
                 /\ (cin.do_free_shapes /\ args[i].hi.num = 0) =>
                       CountTrue(loc.masks_list[i]) = 0
           /\ \A i \in 1..(k - 1) : FracEq(args[i].hi, args[i + 1].lo)
           /\ k > 0 => FracEq(args[1].lo, r_min) /\ FracEq(args[k].hi, r_max)

\* C19 witness: two masked rows with the range [1/2, 1] (RDen = 2): the
\* sub-intervals are [1/2, 3/4] and [3/4, 1]
RatioSubIntervalsWitness ==
    /\ cpc = "returned"
    /\ MaskedRowsOfCall = 2
    /\ 2 * cin.mask_ratio_tuple[1] = RDen
    /\ cin.mask_ratio_tuple[2] = RDen
    /\ 4 * loc.uniform_args[1].hi.num = 3 * loc.uniform_args[1].hi.den
    /\ 4 * loc.uniform_args[2].lo.num = 3 * loc.uniform_args[2].lo.den
    /\ loc.uniform_args[2].hi.num = loc.uniform_args[2].hi.den

\* mask row r as it is collated: tiled across the channels when the call
\* tiles
AsCollated(row) ==
    IF loc.reached = "return" /\ cin.use_ch_patch_embed
    THEN [q \in 1..(cin.c * Len(row)) |-> row[((q - 1) % Len(row)) + 1]]
    ELSE row

\* the number of true cells of a sequence of mask rows
TotalTrue(rows) == SumSeq([r \in 1..Len(rows) |-> CountTrue(rows[r])])

PackSplitRoundTrip ==
    pc \in {"head", "consume"} =>
        LET packed == from_tensor_list(fb.inputs)
            back == split(packed.seqlens, packed.cat_inputs)
        IN /\ Len(back) = Len(fb.inputs)
           /\ \A g \in 1..Len(fb.inputs) : back[g] = fb.inputs[g]
           /\ Len(packed.cat_inputs) = SumSeq(packed.seqlens)
           /\ pc = "consume" =>
                 /\ Len(fb.outputs_list) = Len(fb.inputs)
                 /\ \A g \in 1..Len(fb.inputs) :
                       fb.outputs_list[g] = dino_head(fb.inputs[g])

\* C12 witness: three groups were packed and split, the first of no token,
\* the second of two tokens and the third of one
PackSplitRoundTripWitness ==
    /\ pc = "consume"
    /\ Len(fb.inputs) = 3
    /\ Len(fb.inputs[1]) = 0
    /\ Len(fb.inputs[2]) = 2
    /\ Len(fb.inputs[3]) = 1
    /\ Len(fb.outputs_list) = 3

\* C13 (as claimed): when the iBOT and KoLeo weights are not positive and the
\* DINO weight is positive, the mapping forward_backward returns holds the
\* one key dino_global_crops_loss.
GlobalOnlyOneTerm ==
    (/\ pc = "fb_returned"
     /\ cfg.dino_loss_weight > 0
     /\ cfg.koleo_loss_weight <= 0
     /\ cfg.ibot_loss_weight <= 0) =>
        DOMAIN loss_dict = {"dino_global_crops_loss"}

\* C13 (amended): with the iBOT and KoLeo weights not positive and the DINO
\* weight positive, the returned mapping holds exactly dino_global_crops_loss
\* when cfg.crops.local_crops_number is 0, and exactly dino_global_crops_loss
\* and dino_local_crops_loss when it is positive.
GlobalOnlyTermsByLocalCrops ==
    (/\ pc = "fb_returned"
     /\ cfg.dino_loss_weight > 0
     /\ cfg.koleo_loss_weight <= 0
     /\ cfg.ibot_loss_weight <= 0) =>
        DOMAIN loss_dict =
            IF cfg.local_crops_number = 0
            THEN {"dino_global_crops_loss"}
            ELSE {"dino_global_crops_loss", "dino_local_crops_loss"}

\* C13 witness: a call without local crops, iBOT and KoLeo has returned the
\* one term
GlobalOnlyTermsByLocalCropsWitness ==
    /\ pc = "fb_returned"
    /\ cfg.dino_loss_weight > 0
    /\ cfg.koleo_loss_weight = 0
    /\ cfg.ibot_loss_weight = 0
    /\ cfg.local_crops_number = 0
    /\ DOMAIN loss_dict = {"dino_global_crops_loss"}
    /\ fb.loss_accumulator = cfg.dino_loss_weight * loss_dict["dino_global_crops_loss"]

\* the positions at which a call has ended for a reason other than its loss
\* weights: an unsupported centering mode or a batch the packing rejects
FBRejectedInputs == {"not_implemented_error", "runtime_error", "index_error"}

\* the positions at which a call is still running
FBRunning ==
    {"fb_init", "transfer", "teacher_output", "student_pack", "head", "consume", "losses"}

\* C14 (as claimed): each of the three loss terms is computed, added to the
\* backward scalar and present in the returned mapping if and only if its
\* own weight is positive, whatever the other two weights are: a call that
\* has ended on a supported batch and centering mode has returned a mapping
\* with dino_global_crops_loss iff the DINO weight is positive, ibot_loss iff
\* the iBOT weight is positive and koleo_loss iff the KoLeo weight is
\* positive.
TermsToggledIndependently ==
    pc \notin FBRunning \cup FBRejectedInputs =>
        /\ pc = "fb_returned"
        /\ ("dino_global_crops_loss" \in DOMAIN loss_dict) <=> (cfg.dino_loss_weight > 0)
        /\ ("ibot_loss" \in DOMAIN loss_dict) <=> (cfg.ibot_loss_weight > 0)
        /\ ("koleo_loss" \in DOMAIN loss_dict) <=> (cfg.koleo_loss_weight > 0)

\* the value of a loss term for display with no loss weight applied
UnweightedTerm(k) ==
    CASE k = "dino_local_crops_loss" -> Raw("dino_local") \div LossTerms(cfg)
      [] k = "dino_global_crops_loss" -> (Raw("dino_global") * 2) \div LossTerms(cfg)
      [] k = "koleo_loss" -> Raw("koleo") \div 2
      [] k = "ibot_loss" -> Raw("ibot") \div 2

\* C15 (as claimed): every value stored in the returned mapping is the loss
\* term without its configured weight: the weight multiplies the term in
\* the backward scalar only.
StoredTermsUnweighted ==
    pc = "fb_returned" =>
        \A k \in DOMAIN loss_dict : loss_dict[k] = UnweightedTerm(k)

\* C17 (as claimed): when the groups packed for the shared head do not match
\* the groups consumed after it, the call fails with an assertion error.
GroupMismatchAsserts ==
    (/\ pc \notin FBRunning
     /\ fb.inputs # <<>>
     /\ Len(fb.inputs) # Pops(cfg)) => pc = "assertion_error"

\* C17 (amended): the groups split after the head are as many and as long as
\* the groups packed; when fewer groups were packed than steps 3a-3c pop
\* (free-shape mode with fewer local-crop chunks than
\* cfg.crops.local_crops_number) the call ends with the IndexError of
\* outputs_list.pop(0) and returns nothing; more groups than pops are never
\* packed; and a call that gets past the pops has consumed, role by role,
\* the head's output of the group packed for that role (the patch group cut
\* to its first n_masked_patches tokens).
GroupMismatchIndexError ==
    (pc \notin {"fb_init", "transfer", "teacher_output", "student_pack"}
     /\ fb.inputs # <<>>) =>
        /\ Len(fb.inputs) <= Pops(cfg)
        /\ (pc \notin FBRunning /\ Len(fb.inputs) < Pops(cfg)) => pc = "index_error"
        /\ pc \in {"losses", "fb_returned"} =>
              LET nl == Len(fb.local_after) IN
              /\ Len(fb.inputs) = Pops(cfg)
              /\ fb.outputs_list = <<>>
              /\ nl = (IF cfg.free_shapes THEN cfg.local_crops_number ELSE 1)
              /\ \A i \in 1..nl :
                    /\ fb.local_after[i] = dino_head(fb.inputs[i])
                    /\ \A n \in 1..Len(fb.local_after[i]) :
                          fb.local_after[i][n].kind = "local"
              /\ fb.global_after = dino_head(fb.inputs[nl + 1])
              /\ Len(fb.global_after) = n_global_crops * fb.data.B
              /\ \A n \in 1..Len(fb.global_after) : fb.global_after[n].kind = "global"
              /\ Len(fb.patch_after) =
                    (IF fb.do_ibot THEN fb.data.n_masked_patches ELSE 0)
              /\ \A n \in 1..Len(fb.patch_after) :
                    fb.patch_after[n] = [Token("patch", 0, n) EXCEPT !.head = TRUE]

\* C17 witness: in free-shape mode fewer local groups were packed than the
\* configuration pops, and the call has ended with IndexError
GroupMismatchIndexErrorWitness ==
    /\ pc = "index_error"
    /\ cfg.free_shapes
    /\ fb.data.data_local_crops < cfg.local_crops_number
    /\ Len(fb.inputs) = Pops(cfg) - 1

\* the positions of a call after get_teacher_output has returned
FBAfterTeacher ==
    {"student_pack", "head", "consume", "losses", "fb_returned",
     "runtime_error", "index_error"}

\* C18: in "centering" mode a forward_backward call updates each running
\* center exactly once (the DINO cls center, and the iBOT patch center when
\* iBOT is on, and only then), each update after the center was used for
\* the pseudo-targets (softmax_center_teacher); in "sinkhorn_knopp" mode no
\* center is updated.
CentersUpdatedOnceAfterUse ==
    /\ pc \in FBAfterTeacher /\ cfg.centering = "centering" =>
          /\ Cardinality(CallsOf("dino_loss.update_center")) = 1
          /\ Cardinality(CallsOf("dino_loss.softmax_center_teacher")) = 1
          /\ \A u \in CallsOf("dino_loss.update_center") :
                \A t \in CallsOf("dino_loss.softmax_center_teacher") : t < u
          /\ Cardinality(CallsOf("ibot_patch_loss.update_center"))
                = (IF cfg.ibot_loss_weight > 0 THEN 1 ELSE 0)
          /\ \A u \in CallsOf("ibot_patch_loss.update_center") :
                /\ CallsOf("ibot_patch_loss.softmax_center_teacher") # {}
                /\ \A t \in CallsOf("ibot_patch_loss.softmax_center_teacher") : t < u
    /\ pc \in FBAfterTeacher /\ cfg.centering = "sinkhorn_knopp" =>
          /\ CallsOf("dino_loss.update_center") = {}
          /\ CallsOf("ibot_patch_loss.update_center") = {}
          /\ CallsOf("dino_loss.sinkhorn_knopp_teacher") # {}
    /\ pc \in {"fb_init", "transfer", "teacher_output"} => calls = <<>>

\* C18 witness: a call in "centering" mode with iBOT has returned after the
\* two uses and the two updates
CentersUpdatedOnceAfterUseWitness ==
    /\ pc = "fb_returned"
    /\ cfg.centering = "centering"
    /\ cfg.ibot_loss_weight > 0
    /\ Len(calls) = 5
    /\ calls[2] = "dino_loss.update_center"
    /\ calls[4] = "ibot_patch_loss.update_center"

\* the role in which steps 3a-3c take the g-th group off outputs_list
ConsumedAs(g) ==
    LET nl == IF cfg.free_shapes THEN cfg.local_crops_number ELSE 1
    IN IF g <= nl THEN "local" ELSE IF g = nl + 1 THEN "global" ELSE "patch"

\* the kinds of token a group packed for a role holds
KindsOf(role) == IF role = "patch" THEN {"patch", "zero"} ELSE {role}

\* the groups taken off outputs_list by steps 3a-3c, in the order taken
Consumed ==
    fb.local_after \o <<fb.global_after>>
      \o (IF fb.do_ibot /\ ~cfg.ibot_separate_head THEN <<fb.patch_after>> ELSE <<>>)

\* C21: whatever the configuration (free or fixed shapes, iBOT on or off,
\* shared or separate iBOT head, any local-crop count), a call that gets
\* past the head has taken the groups off the split head output in the order
\* and number in which they were appended before packing: the local-crop cls
\* group(s), then the global-crop cls group, then the masked-patch group
\* (only with iBOT on and a shared head); no group is left over and none is
\* taken as another kind than it was packed.  With a batch that has the
\* configured number of local crops the pops never run the list empty.
GroupsConsumedAsPacked ==
    /\ pc \in {"losses", "fb_returned"} =>
          /\ Len(Consumed) = Len(fb.inputs)
          /\ fb.outputs_list = <<>>
          /\ \A g \in 1..Len(fb.inputs) :
                /\ \A n \in 1..Len(fb.inputs[g]) :
                      fb.inputs[g][n].kind \in KindsOf(ConsumedAs(g))
                /\ Consumed[g] =
                      IF ConsumedAs(g) = "patch"
                      THEN Slice(dino_head(fb.inputs[g]), 0, fb.data.n_masked_patches)
                      ELSE dino_head(fb.inputs[g])
                /\ \A n \in 1..Len(Consumed[g]) :
                      /\ Consumed[g][n].kind = ConsumedAs(g)
                      /\ Consumed[g][n].head
          /\ (Len(fb.inputs) = Len(fb.local_after) + 2)
                <=> (cfg.ibot_loss_weight > 0 /\ ~cfg.ibot_separate_head)
          /\ (cfg.free_shapes /\ fb.data.data_local_crops = cfg.local_crops_number) =>
                \A i \in 1..Len(fb.local_after) :
                    \A n \in 1..Len(fb.local_after[i]) : fb.local_after[i][n].crop = i
    /\ pc = "index_error" =>
          cfg.free_shapes /\ fb.data.data_local_crops < cfg.local_crops_number

\* C21 witness: a free-shape call with two local crops, iBOT and a shared
\* head has returned after taking four groups: two local, the global, the
\* masked patches
GroupsConsumedAsPackedWitness ==
    /\ pc = "fb_returned"
    /\ cfg.free_shapes
    /\ cfg.local_crops_number = 2
    /\ cfg.ibot_loss_weight > 0
    /\ ~cfg.ibot_separate_head
    /\ fb.data.n_masked_patches > 0
    /\ Len(fb.inputs) = 4
    /\ Len(Consumed) = 4
    /\ Consumed[3][1].kind = "global"
    /\ Consumed[4][1].kind = "patch"

BatchAsFBData ==
    [B |-> cin.n_samples, data_local_crops |-> 0,
     n_masked_patches |-> Len(batch.mask_indices_list),
     upperbound |-> batch.upperbound, residency |-> "host"]

\* the masked patch tokens 1..n, in order, after the head
MaskedAfterHead(n) == [i \in 1..n |-> [Token("patch", 0, i) EXCEPT !.head = TRUE]]

\* the rows of a buffer that hold a masked patch token
PatchRows(buffer) == { r \in 1..Len(buffer) : buffer[r].kind = "patch" }

\* C23: for every batch the collator returns, n_masked_patches <= upperbound,
\* so in forward_backward the gather of the n_masked_patches rows fits the
\* student buffer (upperbound rows) and the teacher buffer (upperbound rows,
\* plus the cls-token rows with a shared head): no masked patch is dropped
\* and no row outside the buffer is written; the rows beyond the gathered
\* ones stay zero and are discarded after the head.
GatherFitsBuffers ==
    cpc = "returned" =>
        LET d == BatchAsFBData
            n == d.n_masked_patches
            student_buffer == PatchBuffer(d)
        IN /\ n <= d.upperbound
           /\ Len(student_buffer) = d.upperbound
           /\ PatchRows(student_buffer) = 1..n
           /\ \A r \in (n + 1)..Len(student_buffer) : student_buffer[r].kind = "zero"
           /\ Slice(dino_head(student_buffer), 0, n) = MaskedAfterHead(n)
           /\ \A shared \in BOOLEAN :
                 LET teacher_buffer == TeacherBuffer(shared, d)
                     n_cls_tokens == IF shared THEN n_global_crops * d.B ELSE 0
                 IN /\ n_cls_tokens + n <= Len(teacher_buffer)
                    /\ Len(teacher_buffer) = d.upperbound + n_cls_tokens
                    /\ PatchRows(teacher_buffer) = (n_cls_tokens + 1)..(n_cls_tokens + n)
                    /\ \A r \in 1..n_cls_tokens : teacher_buffer[r].kind = "global"
                    /\ \A r \in (n_cls_tokens + n + 1)..Len(teacher_buffer) :
                          teacher_buffer[r].kind = "zero"
                    /\ masked_teacher_patch_tokens_after_head(shared, d)
                          = MaskedAfterHead(n)

\* C23 witness: a returned batch with masked patches and a larger
\* upperbound: the buffers have zero rows that are discarded
GatherFitsBuffersWitness ==
    /\ cpc = "returned"
    /\ batch.n_masked_patches > 0
    /\ batch.n_masked_patches < batch.upperbound
    /\ Len(PatchBuffer(BatchAsFBData)) > Cardinality(PatchRows(PatchBuffer(BatchAsFBData)))
    /\ Len(masked_teacher_patch_tokens_after_head(TRUE, BatchAsFBData))
          = batch.n_masked_patches

\* C24: the global-crop and the local-crop distillation losses are divided
\* by the same denominator global_loss_terms + local_loss_terms, with
\* global_loss_terms = n_global * (n_global - 1) and local_loss_terms =
\* max(n_local * n_global, 1) for n_global = 2; the denominator is never
\* zero, and it is 3 when there are no local crops.
SameDenominatorNeverZero ==
    pc = "fb_returned" =>
        LET n_local == cfg.local_crops_number
            global_loss_terms == n_global_crops * (n_global_crops - 1)
            local_loss_terms ==
                IF n_local * n_global_crops >= 1 THEN n_local * n_global_crops ELSE 1
            den == global_loss_terms + local_loss_terms
        IN /\ den > 0
           /\ n_local = 0 => den = 3
           /\ "dino_global_crops_loss" \in DOMAIN loss_dict =>
                 loss_dict["dino_global_crops_loss"] * den = 2 * Raw("dino_global")
           /\ "dino_local_crops_loss" \in DOMAIN loss_dict =>
                 loss_dict["dino_local_crops_loss"] * den = Raw("dino_local")
           /\ n_local > 0 =>
                 {"dino_global_crops_loss", "dino_local_crops_loss"}
                     \subseteq DOMAIN loss_dict

\* C24 witness: a call without local crops has returned the global-crop
\* loss divided by 3, and the backward scalar holds it times its weight
SameDenominatorNeverZeroWitness ==
    /\ pc = "fb_returned"
    /\ cfg.local_crops_number = 0
    /\ cfg.ibot_loss_weight = 0
    /\ cfg.koleo_loss_weight = 0
    /\ 3 * loss_dict["dino_global_crops_loss"] = 2 * Raw("dino_global")
    /\ 3 * fb.loss_accumulator = cfg.dino_loss_weight * 2 * Raw("dino_global")

\* C25 (as claimed): forward_backward accepts every batch the collator
\* returns: for a host-resident fixed-shape batch, whose attn_mask_gc,
\* attn_mask_lc, local_crop_len, local_patch_pos and local_crop_dims are
\* None, the input transfer completes without error and the student forward
\* finds every one of these five names defined.
HostBatchAccepted ==
    (/\ fb.data.residency = "host"
     /\ ~cfg.free_shapes
     /\ fb.transfer # "pending") =>
        /\ fb.transfer = "done"
        /\ StudentForwardReads \subseteq fb.bound

\* ========================================================================
\* Properties of HDF5Dataset
\* ========================================================================
\* C30: get_image_data never reads through a file handle that has been
\* closed: the hdf5_file of the entry it reads has a handle registered in
\* hdf5_handles, and that handle is open when it is read.
ReadsThroughOpenHandle ==
    read # <<>> =>
        /\ read[1].hdf5_file # Unregistered
        /\ read[1].state = "open"

=============================================================================
